---- MODULE Spec2Model ----
(***************************************************************************)
(* The mock-data-fallback data-access layer of the second-hand book app:   *)
(* UserService, SavedItemsService and MessageService over a remote store   *)
(* (Supabase) with an in-memory fixture store behind per-module flags.     *)
(*                                                                         *)
(* A service call is an async function: it runs atomically up to its next  *)
(* await; every await of a remote request (or of a setTimeout of a mock    *)
(* path) is a position ("pc") at which other calls may run.  One action    *)
(* starts an operation (its code up to the first await), one action per    *)
(* operation handles the responses it awaits.                              *)
(***************************************************************************)
EXTENDS Integers, Sequences, FiniteSets, TLC

\* ---------------------------------------------------------------- bounds
MaxCalls == 2      \* service calls that may overlap
MaxMsgs == 3       \* rows the remote messages table may hold
MaxClock == 8      \* last instant new Date() may return
MaxConvs == 3      \* rows the remote conversations table may hold
MaxStarts == 2     \* calls started while calls may overlap

\* ------------------------------------------------------------- constants
Undefined == "<undefined>"
NoUser == "<none>"
None == "<none>"

\* The instants of the seed rows, in their order: 2023-08-10T09:15 < ... <
\* 2023-08-15T16:45; new Date() starts after all of them.
T0810a == 1
T0810b == 2
T0812 == 3
T0815a == 4
T0815b == 5
T0815c == 6
ClockStart == T0815c + 1

CallIds == 1..MaxCalls
Tables == {"user_profiles", "saved_items", "conversations", "messages", "book_listings"}

\* Arguments the callers (the screens) pass.
SessionUsers == {"user-001", "user-002"}
UserIds == SessionUsers \cup {"user-new"}
EmailArgs == {"john.smith@example.com", "John.Smith@Example.com", "new@example.com"}
PasswordArgs == {"right", "wrong"}
NameArgs == {"Johnny"}
UserIdArgs == {"user-001", "user-005"}
ConvArgs == {"conv-001", "cu-1"}
ListingArgs == {"book-001", "book-005"}
SellerArgs == {"user-001", "user-002"}
ContentArgs == {"Hi"}
BookArgs == {"book-001", "book-005"}
TypeArgs == {"favorite", "wishlist"}

mockUsers ==
  << [id |-> "user-001", email |-> "john.smith@example.com", name |-> "John Smith"],
     [id |-> "user-002", email |-> "emily.wong@example.com", name |-> "Emily Wong"],
     [id |-> "user-003", email |-> "michael.rodriguez@example.com", name |-> "Michael Rodriguez"],
     [id |-> "user-004", email |-> "sarah.johnson@example.com", name |-> "Sarah Johnson"],
     [id |-> "user-005", email |-> "david.kim@example.com", name |-> "David Kim"] >>

\* mockConversations / mockMessages as the module initialises them.
SeedConversations ==
  << [id |-> "conv-001", listing_id |-> "book-001", buyer_id |-> "user-002",
      seller_id |-> "user-001", created_at |-> T0810a, last_message_at |-> T0812,
      is_active |-> TRUE],
     [id |-> "conv-002", listing_id |-> "book-005", buyer_id |-> "user-001",
      seller_id |-> "user-005", created_at |-> T0815a, last_message_at |-> T0815c,
      is_active |-> TRUE] >>

Msg(id, c, s, r, x, t, rd) ==
  [id |-> id, conversation_id |-> c, sender_id |-> s, receiver_id |-> r,
   content |-> x, created_at |-> t, read |-> rd]

SeedMessages ==
  << Msg("msg-001", "conv-001", "user-002", "user-001", "available?", T0810a, TRUE),
     Msg("msg-002", "conv-001", "user-001", "user-002", "Yes", T0810b, TRUE),
     Msg("msg-003", "conv-001", "user-002", "user-001", "lower price?", T0812, FALSE),
     Msg("msg-004", "conv-002", "user-001", "user-005", "Hello", T0815a, TRUE),
     Msg("msg-005", "conv-002", "user-005", "user-001", "great condition", T0815b, TRUE),
     Msg("msg-006", "conv-002", "user-001", "user-005", "When can we meet", T0815c, FALSE) >>

\* What the remote tables hold when the app starts: one conversation about
\* book-001 between user-002 (buyer) and user-001 (seller), one unread message.
RemoteConversations0 ==
  << [id |-> "cu-1", listing_id |-> "book-001", buyer_id |-> "user-002",
      seller_id |-> "user-001", created_at |-> T0810a, last_message_at |-> T0812,
      is_active |-> TRUE] >>
RemoteMessages0 ==
  << Msg("mu-1", "cu-1", "user-002", "user-001", "available?", T0812, FALSE) >>

\* gen_random_uuid() of the remote tables, by row number.
ConvUuid == << "cu-1", "cu-2", "cu-3", "cu-4", "cu-5", "cu-6", "cu-7", "cu-8", "cu-9" >>
MsgUuid == << "mu-1", "mu-2", "mu-3", "mu-4", "mu-5", "mu-6", "mu-7", "mu-8", "mu-9" >>
\* `msg-${n}`.padStart(7, '0') and `conv-${n}`.padStart(7, '0')
MockMsgId == << "00msg-1", "00msg-2", "00msg-3", "00msg-4", "00msg-5", "00msg-6",
                "00msg-7", "00msg-8", "00msg-9" >>
MockConvId == << "0conv-1", "0conv-2", "0conv-3", "0conv-4", "0conv-5" >>

\* ---------------------------------------------------------------- state
VARIABLES
  tables,            \* relations that exist in the remote store
  session,           \* user of the Supabase auth session, or NoUser
  clock,             \* the last instant new Date() returned
  flagUsers,         \* UserService DETECTED_MISSING_TABLES
  flagSaved,         \* SavedItemsService DETECTED_MISSING_TABLE
  flagMsg,           \* MessageService DETECTED_MISSING_TABLES
  mockConversations, mockMessages,        \* MessageService fixture store
  mockFavorites, mockWishlist,            \* SavedItemsService fixture store
  rConversations, rMessages, rSaved,      \* rows of the remote tables
  rProfiles,         \* rows of the remote user_profiles table
  accounts,          \* << email, password >> of the accounts of the auth service
  calls,             \* the service calls in flight or just returned
  mode,              \* "overlap": calls may overlap; "seq": one caller awaits each
  started,           \* calls started so far while calls may overlap
  marked             \* <<conversation, user>> of the last markMessagesAsRead
                     \* that succeeded with no message created since

vars == << tables, session, clock, flagUsers, flagSaved, flagMsg,
           mockConversations, mockMessages, mockFavorites, mockWishlist,
           rConversations, rMessages, rSaved, rProfiles, accounts, calls, mode,
           started, marked >>

flagVars == << flagUsers, flagSaved, flagMsg >>
fixtureVars == << mockConversations, mockMessages, mockFavorites, mockWishlist >>
remoteVars == << rConversations, rMessages, rSaved, rProfiles >>
envVars == << tables >>

\* const USE_MOCK_DATA = false in the build as shipped; mode "dev" is the
\* development build, the same source with the constant set to true.
USE_MOCK_DATA == mode = "dev"

\* ------------------------------------------------------------- helpers
Range(s) == { s[k] : k \in 1..Len(s) }

\* Array.prototype.sort (stable) on field f, ascending or descending.
RECURSIVE StableSort(_, _, _)
StableSort(s, f, desc) ==
  IF s = << >> THEN << >>
  ELSE LET x == s[Len(s)]
           t == StableSort(SubSeq(s, 1, Len(s) - 1), f, desc)
           n == Cardinality({ k \in 1..Len(t) :
                               IF desc THEN t[k][f] >= x[f] ELSE t[k][f] <= x[f] })
       IN  SubSeq(t, 1, n) \o << x >> \o SubSeq(t, n + 1, Len(t))

\* ORDER BY f of the remote store: every order of the rows that respects f
\* (rows with equal f come in any order).
RECURSIVE Orders(_, _, _)
Orders(S, f, desc) ==
  IF S = {} THEN { << >> }
  ELSE UNION { { << x >> \o t : t \in Orders(S \ {x}, f, desc) } :
               x \in { y \in S : \A z \in S :
                        IF desc THEN y[f] >= z[f] ELSE y[f] <= z[f] } }

isTableNotExistError_AnyError(error) == error \in {"42P01", "other"}
\* function isTableNotExistError(error): PostgreSQL code 42P01.
isTableNotExistError(error) == error = "42P01"

\* What a request on table t can answer: the rows ("ok") when the relation
\* exists, relation-missing when it does not, or any other failure
\* (transport, permission) either way.
Outcomes(t) == (IF t \in tables THEN {"ok"} ELSE {"42P01"}) \cup {"other"}

\* new Date(): time may have passed since the last reading (at instant t).
After(t) == { u \in {t, t + 1} : u <= MaxClock }
Now == After(clock)

\* ------------------------------------------------------------- the calls
\* One service call: its operation and arguments, its position, its locals,
\* what it returned, and (last four fields) what it did, for the properties.
Idle ==
  [ op |-> "none", pc |-> "idle", user |-> NoUser, outer |-> "none",
    conversationId |-> None, listingId |-> None, sellerId |-> None, content |-> None,
    bookId |-> None, type |-> None, email |-> None, password |-> None, name |-> None,
    userId |-> None,
    conversations |-> << >>, unreadCounts |-> {}, lastMessages |-> {},
    pending |-> {}, users |-> {}, listings |-> {}, receiverId |-> None, ts |-> 0, ts2 |-> 0, isSaved |-> FALSE,
    status |-> "none", error |-> None, rows |-> << >>, count |-> 0, bool |-> FALSE,
    flag0 |-> FALSE, remote |-> FALSE, fixture |-> FALSE, saw42 |-> FALSE,
    sawOther |-> FALSE, last |-> None, nRows |-> 0 ]

InFlight(c) == c.pc \notin {"idle", "done"}

\* A caller that starts a call has taken the results of the calls that returned.
Cleared == [ j \in CallIds |-> IF calls[j].pc = "done" THEN Idle ELSE calls[j] ]

CanStart(i) ==
  /\ Cleared[i].pc = "idle"
  /\ \A k \in 1..(i - 1) : Cleared[k].pc # "idle"
  /\ mode \in {"seq", "dev"} => \A j \in CallIds : ~InFlight(calls[j])
  /\ mode = "overlap" => started < MaxStarts

\* A call that has returned keeps what it returned and what it did, not its locals.
Finished(c) ==
  IF c.pc # "done" THEN c
  ELSE [ c EXCEPT !.conversations = << >>, !.unreadCounts = {}, !.lastMessages = {},
                  !.pending = {}, !.users = {}, !.listings = {}, !.receiverId = None,
                  !.ts = 0, !.ts2 = 0, !.nRows = Len(c.conversations) ]

Begin(i, c) ==
  /\ calls' = [ Cleared EXCEPT ![i] = Finished(c) ]
  /\ started' = IF mode = "overlap" THEN started + 1 ELSE started
Step(i, c) == calls' = [ calls EXCEPT ![i] = Finished(c) ] /\ started' = started

\* The positions at which a call awaits the setTimeout of a mock path; at
\* every other position in flight it awaits the remote store.
TimerPcs == {"gc_mock", "gm_mock", "uc_mock", "sm_mock", "mr_mock", "sc_mock",
             "as_mock", "rs_mock", "is_mock", "gs_mock",
             "si_mock", "su_mock", "cu_mock", "ub_mock", "up_mock"}
AwaitsRemote(c) == InFlight(c) /\ c.pc \notin TimerPcs /\ c.pc # "hung"

Throw_Swallowed(c, e) == [ c EXCEPT !.pc = "done", !.status = "ok" ]
\* throw / reject: the call fails to its caller with error e.
Throw(c, e) == [ c EXCEPT !.pc = "done", !.status = "err", !.error = e ]
\* The response o of a remote request, as the call sees it: 42P01 on a table
\* of its module, or a failure that is no database answer ("other").
Saw(c, o) ==
  [ c EXCEPT !.last = o,
             !.saw42 = @ \/ isTableNotExistError(o),
             !.sawOther = @ \/ (o = "other") ]

FlagAfter_Reset(flag, error) == isTableNotExistError(error)
\* if (isTableNotExistError(error)) { DETECTED_MISSING_TABLES = true; ... }
FlagAfter(flag, error) == IF isTableNotExistError(error) THEN TRUE ELSE flag

New(op, flag) == [ Idle EXCEPT !.op = op, !.pc = "start", !.flag0 = flag ]
ReturnRows(c, rows, fixture) ==
  [ c EXCEPT !.pc = "done", !.status = "ok", !.rows = rows, !.fixture = fixture ]
ReturnCount(c, n, fixture) ==
  [ c EXCEPT !.pc = "done", !.status = "ok", !.count = n, !.fixture = fixture ]
ReturnBool(c, b, fixture) ==
  [ c EXCEPT !.pc = "done", !.status = "ok", !.bool = b, !.fixture = fixture ]
ReturnVoid(c, fixture) ==
  [ c EXCEPT !.pc = "done", !.status = "ok", !.fixture = fixture ]

\* Variables no MessageService operation writes.
notMsg == << tables, mode, session, flagUsers, flagSaved, mockFavorites, mockWishlist,
            rSaved, rProfiles, accounts >>

\* ------------------------------------------ rows of the other remote tables
User(id, email, name) == [ id |-> id, email |-> email, name |-> name ]
\* What user_profiles and the auth service hold when the app starts.
RemoteProfiles0 ==
  { User("user-001", "john.smith@example.com", "John Smith"),
    User("user-002", "emily.wong@example.com", "Emily Wong") }
Accounts0 ==
  { << "john.smith@example.com", "right" >>, << "emily.wong@example.com", "right" >> }
RemoteListings ==
  { [id |-> "book-001", title |-> "The Great Gatsby", price |-> 1299],
    [id |-> "book-005", title |-> "Clean Code", price |-> 2850] }

\* ------------------------------------------ MessageService.getConversations
Enhanced(conv, unreadCount, lastMessage, otherUser, listing) ==
  [ id |-> conv.id, listing_id |-> conv.listing_id, buyer_id |-> conv.buyer_id,
    seller_id |-> conv.seller_id, created_at |-> conv.created_at,
    last_message_at |-> conv.last_message_at, is_active |-> conv.is_active,
    unreadCount |-> unreadCount, lastMessage |-> lastMessage,
    otherUser |-> otherUser, listing |-> listing ]

\* `Book #${conv.listing_id.split('-')[1]}`
MockTitle(listing_id) ==
  CASE listing_id = "book-001" -> "Book #001"
    [] listing_id = "book-005" -> "Book #005"
    [] OTHER -> "Book #"
MockPrice == 1999

OtherUserId(conv, userId) ==
  IF conv.buyer_id = userId THEN conv.seller_id ELSE conv.buyer_id

\* msg.conversation_id === conv.id && msg.receiver_id === userId && !msg.read
MockUnreadCount(convId, userId) ==
  Len(SelectSeq(mockMessages, LAMBDA m :
        m.conversation_id = convId /\ m.receiver_id = userId /\ ~m.read))

MockLastMessage(convId) ==
  LET conversationMessages ==
        StableSort(SelectSeq(mockMessages, LAMBDA m : m.conversation_id = convId),
                   "created_at", TRUE)
  IN  IF Len(conversationMessages) > 0 THEN conversationMessages[1].content ELSE Undefined

MockEnhance(conv, userId) ==
  LET otherUser == SelectSeq(mockUsers, LAMBDA u : u.id = OtherUserId(conv, userId))
  IN  Enhanced(conv, MockUnreadCount(conv.id, userId), MockLastMessage(conv.id),
               [ id |-> IF otherUser = << >> THEN "" ELSE otherUser[1].id,
                 name |-> IF otherUser = << >> THEN "Unknown User" ELSE otherUser[1].name ],
               [ id |-> conv.listing_id, title |-> MockTitle(conv.listing_id),
                 price |-> MockPrice ])

\* The mock path of getConversations, as its timer runs it.
MockGetConversations(userId) ==
  LET userConversations ==
        SelectSeq(mockConversations, LAMBDA conv :
                    conv.buyer_id = userId \/ conv.seller_id = userId)
      enhancedConversations ==
        [ k \in 1..Len(userConversations) |-> MockEnhance(userConversations[k], userId) ]
  IN  StableSort(enhancedConversations, "last_message_at", TRUE)

\* getConversations up to its first await: getUserId(), then the flag.
gcEnter(c, flag) ==
  IF session = NoUser THEN Throw(c, "Not authenticated")
  ELSE IF USE_MOCK_DATA \/ flag
       THEN [ c EXCEPT !.user = session, !.pc = "gc_mock" ]
       ELSE [ c EXCEPT !.user = session, !.pc = "gc_conversations", !.remote = TRUE ]

getConversations(i) ==
  /\ CanStart(i)
  /\ Begin(i, gcEnter(New("getConversations", flagMsg), flagMsg))
  /\ UNCHANGED << notMsg, flagMsg, clock, mockConversations, mockMessages,
                  rConversations, rMessages, marked >>

ConvIdsOf(rows) == { rows[k].id : k \in 1..Len(rows) }

\* Lines 277-320: the unread counts are in; the last-message requests go
\* out, and the flag is looked at before they are awaited.
gcAfterCounts(c, flag) ==
  IF flag THEN gcEnter(c, flag)
  ELSE [ c EXCEPT !.pc = "gc_lasts", !.pending = ConvIdsOf(c.conversations) ]

\* The response to the conversations query (lines 212-275).
getConversations_conversations(i) ==
  LET c == calls[i] IN
  /\ c.pc = "gc_conversations"
  /\ \E o \in Outcomes("conversations") :
       LET d == Saw(c, o)
           f2 == FlagAfter(flagMsg, o)
       IN  /\ flagMsg' = f2
           /\ IF o # "ok"
              THEN Step(i, IF isTableNotExistError(o) THEN gcEnter(d, f2) ELSE Throw(d, o))
              ELSE \E rows \in Orders({ r \in Range(rConversations) :
                                         /\ r.buyer_id = c.user \/ r.seller_id = c.user
                                         /\ r.is_active },
                                      "last_message_at", TRUE) :
                     Step(i, IF rows = << >> THEN ReturnRows(d, << >>, FALSE)
                             ELSE IF flagMsg
                                  THEN gcEnter([ d EXCEPT !.conversations = rows ], flagMsg)
                                  ELSE [ d EXCEPT !.pc = "gc_counts", !.conversations = rows,
                                                  !.pending = ConvIdsOf(rows) ])
  /\ UNCHANGED << notMsg, clock, mockConversations, mockMessages,
                  rConversations, rMessages, marked >>

RemoteUnread(convId, userId) ==
  Cardinality({ m \in Range(rMessages) :
                  m.conversation_id = convId /\ m.receiver_id = userId /\ ~m.read })

\* One unread-count lookup answers (lines 238-268); with the last of them
\* Promise.all resolves and the call goes on.
getConversations_unreadCount(i, k) ==
  LET c == calls[i] IN
  /\ c.pc = "gc_counts"
  /\ k \in c.pending
  /\ \E o \in Outcomes("messages") :
       LET f2 == FlagAfter(flagMsg, o)
           e == [ Saw(c, o) EXCEPT
                    !.unreadCounts = @ \cup
                       { [ conversationId |-> k,
                           count |-> IF o = "ok" THEN RemoteUnread(k, c.user) ELSE 0 ] },
                    !.pending = @ \ {k} ]
       IN  /\ flagMsg' = f2
           /\ Step(i, IF e.pending = {} THEN gcAfterCounts(e, f2) ELSE e)
  /\ UNCHANGED << notMsg, clock, mockConversations, mockMessages,
                  rConversations, rMessages, marked >>

\* ORDER BY created_at DESC LIMIT 1 on the remote messages of a conversation.
RemoteLastMessages(convId) ==
  LET ms == { m \in Range(rMessages) : m.conversation_id = convId }
  IN  IF ms = {} THEN { Undefined }
      ELSE { ord[1].content : ord \in Orders(ms, "created_at", TRUE) }

\* One last-message lookup answers (lines 280-313); after the last of them
\* the user_profiles query goes out.
getConversations_lastMessage(i, k) ==
  LET c == calls[i] IN
  /\ c.pc = "gc_lasts"
  /\ k \in c.pending
  /\ \E o \in Outcomes("messages") :
     \E message \in (IF o = "ok" THEN RemoteLastMessages(k) ELSE { Undefined }) :
       LET e == [ Saw(c, o) EXCEPT
                    !.lastMessages = @ \cup { [ conversationId |-> k, message |-> message ] },
                    !.pending = @ \ {k} ]
       IN  /\ flagMsg' = FlagAfter(flagMsg, o)
           /\ Step(i, IF e.pending = {} THEN [ e EXCEPT !.pc = "gc_users" ] ELSE e)
  /\ UNCHANGED << notMsg, clock, mockConversations, mockMessages,
                  rConversations, rMessages, marked >>

\* A failure of a lookup in another module's table is logged, not thrown.
SawForeign(c, o) == [ c EXCEPT !.last = o, !.sawOther = @ \/ (o = "other") ]

\* The user_profiles lookup answers (lines 329-343).
getConversations_users(i) ==
  LET c == calls[i] IN
  /\ c.pc = "gc_users"
  /\ \E o \in Outcomes("user_profiles") :
       LET userIds == { OtherUserId(c.conversations[k], c.user) :
                          k \in 1..Len(c.conversations) }
       IN  Step(i, [ SawForeign(c, o) EXCEPT
                       !.users = IF o = "ok"
                                 THEN { [ id |-> u.id, name |-> u.name ] : u \in { p \in rProfiles : p.id \in userIds } }
                                 ELSE {},
                       !.pc = "gc_listings" ])
  /\ UNCHANGED << notMsg, flagMsg, clock, mockConversations, mockMessages,
                  rConversations, rMessages, marked >>

\* Lines 365-388: the remote rows merged by foreign key.
RemoteEnhance(conv, c) ==
  LET otherUserId == OtherUserId(conv, c.user)
      us == { u \in c.users : u.id = otherUserId }
      ucs == { uc \in c.unreadCounts : uc.conversationId = conv.id }
      lms == { lm \in c.lastMessages : lm.conversationId = conv.id }
      ls == { l \in c.listings : l.id = conv.listing_id }
  IN  Enhanced(conv,
               IF ucs = {} THEN 0 ELSE (CHOOSE uc \in ucs : TRUE).count,
               IF lms = {} THEN Undefined ELSE (CHOOSE lm \in lms : TRUE).message,
               IF us = {} THEN [ id |-> otherUserId, name |-> "Unknown User" ]
               ELSE CHOOSE u \in us : TRUE,
               IF ls = {} THEN [ id |-> conv.listing_id, title |-> "Unknown Book", price |-> 0 ]
               ELSE CHOOSE l \in ls : TRUE)

\* The book_listings lookup answers (lines 348-390); the call returns.
getConversations_listings(i) ==
  LET c == calls[i] IN
  /\ c.pc = "gc_listings"
  /\ \E o \in Outcomes("book_listings") :
       LET listingIds == { c.conversations[k].listing_id : k \in 1..Len(c.conversations) }
           d == [ SawForeign(c, o) EXCEPT
                    !.listings = IF o = "ok"
                                 THEN { l \in RemoteListings : l.id \in listingIds } ELSE {} ]
       IN  Step(i, ReturnRows(d, [ k \in 1..Len(d.conversations) |->
                                     RemoteEnhance(d.conversations[k], d) ], FALSE))
  /\ UNCHANGED << notMsg, flagMsg, clock, mockConversations, mockMessages,
                  rConversations, rMessages, marked >>

\* ----------------------------------------------- MessageService.getMessages
\* The fixture rows of getMessages without the filter on conversation_id.
MockGetMessages_AnyConversation(conversationId) ==
  StableSort(mockMessages, "created_at", FALSE)

MockGetMessages(conversationId) ==
  StableSort(SelectSeq(mockMessages, LAMBDA m : m.conversation_id = conversationId),
             "created_at", FALSE)

\* getMessages up to its first await; it never calls getUserId().
gmEnter(c, flag) ==
  IF USE_MOCK_DATA \/ flag
  THEN [ c EXCEPT !.user = session, !.pc = "gm_mock" ]
  ELSE [ c EXCEPT !.user = session, !.pc = "gm_messages", !.remote = TRUE ]

getMessages(i, conversationId) ==
  /\ CanStart(i)
  /\ Begin(i, gmEnter([ New("getMessages", flagMsg) EXCEPT
                          !.conversationId = conversationId ], flagMsg))
  /\ UNCHANGED << notMsg, flagMsg, clock, mockConversations, mockMessages,
                  rConversations, rMessages, marked >>

\* messages_select_policy: the rows of conversations the user takes part in.
Participates(convId, userId) ==
  \E r \in Range(rConversations) :
     r.id = convId /\ (r.buyer_id = userId \/ r.seller_id = userId)

getMessages_messages(i) ==
  LET c == calls[i] IN
  /\ c.pc = "gm_messages"
  /\ \E o \in Outcomes("messages") :
       LET d == Saw(c, o)
           f2 == FlagAfter(flagMsg, o)
       IN  /\ flagMsg' = f2
           /\ IF o # "ok"
              THEN Step(i, IF isTableNotExistError(o) THEN gmEnter(d, f2) ELSE Throw(d, o))
              ELSE \E rows \in Orders({ m \in Range(rMessages) :
                                         /\ m.conversation_id = c.conversationId
                                         /\ Participates(m.conversation_id, c.user) },
                                      "created_at", FALSE) :
                     Step(i, ReturnRows(d, rows, FALSE))
  /\ UNCHANGED << notMsg, clock, mockConversations, mockMessages,
                  rConversations, rMessages, marked >>

\* -------------------------------------------- MessageService.getUnreadCount
ucEnter(c, flag) ==
  IF session = NoUser THEN Throw(c, "Not authenticated")
  ELSE IF USE_MOCK_DATA \/ flag
       THEN [ c EXCEPT !.user = session, !.pc = "uc_mock" ]
       ELSE [ c EXCEPT !.user = session, !.pc = "uc_messages", !.remote = TRUE ]

getUnreadCount(i) ==
  /\ CanStart(i)
  /\ Begin(i, ucEnter(New("getUnreadCount", flagMsg), flagMsg))
  /\ UNCHANGED << notMsg, flagMsg, clock, mockConversations, mockMessages,
                  rConversations, rMessages, marked >>

MockUnreadTotal(userId) ==
  Len(SelectSeq(mockMessages, LAMBDA m : m.receiver_id = userId /\ ~m.read))

\* Lines 775-804: the catch returns 0 for an error that is not 42P01.
getUnreadCount_messages(i) ==
  LET c == calls[i] IN
  /\ c.pc = "uc_messages"
  /\ \E o \in Outcomes("messages") :
       LET d == Saw(c, o)
           f2 == FlagAfter(flagMsg, o)
       IN  /\ flagMsg' = f2
           /\ Step(i, IF o = "ok"
                      THEN ReturnCount(d, Cardinality({ m \in Range(rMessages) :
                                          /\ m.receiver_id = c.user /\ ~m.read
                                          /\ Participates(m.conversation_id, c.user) }),
                                       FALSE)
                      ELSE IF isTableNotExistError(o) THEN ucEnter(d, f2)
                      ELSE ReturnCount(d, 0, FALSE))
  /\ UNCHANGED << notMsg, clock, mockConversations, mockMessages,
                  rConversations, rMessages, marked >>

\* ----------------------------------------------- MessageService.sendMessage
\* Calls in flight that will insert a message / a conversation.
Senders == { j \in CallIds : InFlight(calls[j]) /\ calls[j].op \in {"sendMessage", "startConversation"} }
Starters == { j \in CallIds : InFlight(calls[j]) /\ calls[j].op = "startConversation" }

\* Lines 459-506: only USE_MOCK_DATA selects the mock path.
smEnter(c) ==
  IF session = NoUser THEN Throw(c, "Not authenticated")
  ELSE IF USE_MOCK_DATA
       THEN [ c EXCEPT !.user = session, !.pc = "sm_mock" ]
       ELSE [ c EXCEPT !.user = session, !.pc = "sm_conversation", !.remote = TRUE ]

sendMessage(i, conversationId, content) ==
  /\ CanStart(i)
  /\ Len(rMessages) + Cardinality(Senders) < MaxMsgs
  /\ Len(mockMessages) < Len(SeedMessages) + MaxMsgs - 1
  /\ Begin(i, smEnter([ New("sendMessage", flagMsg) EXCEPT
                          !.conversationId = conversationId, !.content = content ]))
  /\ UNCHANGED << notMsg, flagMsg, clock, mockConversations, mockMessages,
                  rConversations, rMessages, marked >>

\* The conversation row answers (lines 508-532): .single() fails on no row.
sendMessage_conversation(i) ==
  LET c == calls[i] IN
  /\ c.pc = "sm_conversation"
  /\ \E o \in Outcomes("conversations") :
       LET found == { r \in Range(rConversations) :
                        r.id = c.conversationId /\ Participates(r.id, c.user) }
       IN  IF o # "ok" THEN Step(i, Throw(Saw(c, o), o)) /\ clock' = clock
           ELSE IF found = {}
                THEN Step(i, Throw(Saw(c, "PGRST116"), "PGRST116")) /\ clock' = clock
                ELSE \E t \in Now :
                       /\ clock' = t
                       /\ Step(i, [ Saw(c, o) EXCEPT
                                      !.pc = "sm_insert", !.ts = t,
                                      !.receiverId = OtherUserId(CHOOSE r \in found : TRUE, c.user) ])
  /\ UNCHANGED << notMsg, flagMsg, mockConversations, mockMessages,
                  rConversations, rMessages, marked >>

\* The insert answers (lines 523-544); the update of last_message_at goes out.
sendMessage_insert(i) ==
  LET c == calls[i] IN
  /\ c.pc = "sm_insert"
  /\ \E o \in Outcomes("messages") :
       IF o # "ok"
       THEN /\ Step(i, Throw(Saw(c, o), o))
            /\ UNCHANGED << clock, rMessages, marked >>
       ELSE LET data == Msg(MsgUuid[Len(rMessages) + 1], c.conversationId, c.user,
                            c.receiverId, c.content, c.ts, FALSE)
            IN  \E t \in Now :
                  /\ clock' = t
                  /\ rMessages' = Append(rMessages, data)
                  /\ marked' = marked \ { << c.conversationId, c.receiverId >> }
                  /\ Step(i, [ Saw(c, o) EXCEPT !.pc = "sm_update", !.ts2 = t,
                                                !.rows = << data >> ])
  /\ UNCHANGED << notMsg, flagMsg, mockConversations, mockMessages, rConversations >>

Touch(convs, convId, t) ==
  [ k \in 1..Len(convs) |->
      IF convs[k].id = convId THEN [ convs[k] EXCEPT !.last_message_at = t ] ELSE convs[k] ]

\* The update answers (lines 541-546); its error, if any, is not looked at.
sendMessage_update(i) ==
  LET c == calls[i] IN
  /\ c.pc = "sm_update"
  /\ \E o \in Outcomes("conversations") :
       /\ rConversations' = IF o = "ok" THEN Touch(rConversations, c.conversationId, c.ts2)
                            ELSE rConversations
       /\ Step(i, [ Saw(c, o) EXCEPT !.pc = "done", !.status = "ok" ])
  /\ UNCHANGED << notMsg, flagMsg, clock, mockConversations, mockMessages, rMessages, marked >>

\* ---------------------------------------- MessageService.markMessagesAsRead
mrEnter(c) ==
  IF session = NoUser THEN Throw(c, "Not authenticated")
  ELSE IF USE_MOCK_DATA
       THEN [ c EXCEPT !.user = session, !.pc = "mr_mock" ]
       ELSE [ c EXCEPT !.user = session, !.pc = "mr_update", !.remote = TRUE ]

markMessagesAsRead(i, conversationId) ==
  /\ CanStart(i)
  /\ Begin(i, mrEnter([ New("markMessagesAsRead", flagMsg) EXCEPT
                          !.conversationId = conversationId ]))
  /\ UNCHANGED << notMsg, flagMsg, clock, mockConversations, mockMessages,
                  rConversations, rMessages, marked >>

\* markMessagesAsRead's update without the filter on receiver_id.
MarkRead_AnyReceiver(msgs, conversationId, userId) ==
  [ k \in 1..Len(msgs) |->
      IF msgs[k].conversation_id = conversationId
      THEN [ msgs[k] EXCEPT !.read = TRUE ] ELSE msgs[k] ]

\* msg.conversation_id === conversationId && msg.receiver_id === userId
MarkRead(msgs, conversationId, userId) ==
  [ k \in 1..Len(msgs) |->
      IF msgs[k].conversation_id = conversationId /\ msgs[k].receiver_id = userId
      THEN [ msgs[k] EXCEPT !.read = TRUE ] ELSE msgs[k] ]

\* The update answers (lines 580-593).
markMessagesAsRead_update(i) ==
  LET c == calls[i] IN
  /\ c.pc = "mr_update"
  /\ \E o \in Outcomes("messages") :
       IF o # "ok"
       THEN Step(i, Throw(Saw(c, o), o)) /\ UNCHANGED << rMessages, marked >>
       ELSE /\ rMessages' = MarkRead(rMessages, c.conversationId, c.user)
            /\ marked' = { << c.conversationId, c.user >> }
            /\ Step(i, ReturnVoid(Saw(c, o), FALSE))
  /\ UNCHANGED << notMsg, flagMsg, clock, mockConversations, mockMessages, rConversations >>

\* ----------------------------------------- MessageService.startConversation
scEnter_NoSelfCheck(c) ==
  IF session = NoUser THEN Throw(c, "Not authenticated")
  ELSE [ c EXCEPT !.user = session, !.pc = IF USE_MOCK_DATA THEN "sc_mock" ELSE "sc_check",
                  !.remote = ~USE_MOCK_DATA ]
\* Lines 600-676: the checks, then only USE_MOCK_DATA selects the mock path.
scEnter(c) ==
  IF session = NoUser THEN Throw(c, "Not authenticated")
  ELSE IF session = c.sellerId THEN Throw(c, "Cannot start a conversation with yourself")
  ELSE IF USE_MOCK_DATA
       THEN [ c EXCEPT !.user = session, !.pc = "sc_mock" ]
       ELSE [ c EXCEPT !.user = session, !.pc = "sc_check", !.remote = TRUE ]

startConversation(i, listingId, sellerId, initialMessage) ==
  /\ CanStart(i)
  /\ Len(rMessages) + Cardinality(Senders) < MaxMsgs
  /\ Len(mockMessages) < Len(SeedMessages) + MaxMsgs - 1
  /\ Len(rConversations) + Cardinality(Starters) < MaxConvs
  /\ Len(mockConversations) < Len(SeedConversations) + MaxConvs - 1
  /\ Begin(i, scEnter([ New("startConversation", flagMsg) EXCEPT
                          !.listingId = listingId, !.sellerId = sellerId,
                          !.content = initialMessage ]))
  /\ UNCHANGED << notMsg, flagMsg, clock, mockConversations, mockMessages,
                  rConversations, rMessages, marked >>

SameTriple(r, listingId, buyerId, sellerId) ==
  r.listing_id = listingId /\ r.buyer_id = buyerId /\ r.seller_id = sellerId

\* The check for an existing conversation answers (lines 678-714).
startConversation_check(i) ==
  LET c == calls[i] IN
  /\ c.pc = "sc_check"
  /\ \E o \in Outcomes("conversations") :
       LET existingConversations ==
             { r \in Range(rConversations) :
                 SameTriple(r, c.listingId, c.user, c.sellerId) /\ r.is_active }
       IN  IF o # "ok" THEN Step(i, Throw(Saw(c, o), o)) /\ clock' = clock
           ELSE IF existingConversations # {}
                THEN \E t \in Now :
                       /\ clock' = t
                       /\ Step(i, [ Saw(c, o) EXCEPT
                                      !.pc = "sc_touch", !.ts = t,
                                      !.conversationId =
                                         (CHOOSE r \in existingConversations : TRUE).id ])
                ELSE \E t \in Now : \E t2 \in After(t) :
                       /\ clock' = t2
                       /\ Step(i, [ Saw(c, o) EXCEPT !.pc = "sc_create", !.ts = t, !.ts2 = t2 ])
  /\ UNCHANGED << notMsg, flagMsg, mockConversations, mockMessages,
                  rConversations, rMessages, marked >>

\* The update of the existing conversation answers (lines 697-733); its
\* error is not looked at.  The message insert goes out.
startConversation_touch(i) ==
  LET c == calls[i] IN
  /\ c.pc = "sc_touch"
  /\ \E o \in Outcomes("conversations") : \E t \in Now :
       /\ clock' = t
       /\ rConversations' = IF o = "ok" THEN Touch(rConversations, c.conversationId, c.ts)
                            ELSE rConversations
       /\ Step(i, [ Saw(c, o) EXCEPT !.pc = "sc_message", !.ts = t ])
  /\ UNCHANGED << notMsg, flagMsg, mockConversations, mockMessages, rMessages, marked >>

\* The insert of the conversation answers (lines 703-733); the table's
\* UNIQUE (listing_id, buyer_id, seller_id) rejects a second row (23505).
startConversation_create(i) ==
  LET c == calls[i] IN
  /\ c.pc = "sc_create"
  /\ \E o \in Outcomes("conversations") :
       IF o # "ok"
       THEN Step(i, Throw(Saw(c, o), o)) /\ UNCHANGED << clock, rConversations >>
       ELSE IF \E r \in Range(rConversations) : SameTriple(r, c.listingId, c.user, c.sellerId)
            THEN Step(i, Throw(Saw(c, "23505"), "23505")) /\ UNCHANGED << clock, rConversations >>
            ELSE LET newConversation ==
                       [ id |-> ConvUuid[Len(rConversations) + 1], listing_id |-> c.listingId,
                         buyer_id |-> c.user, seller_id |-> c.sellerId, created_at |-> c.ts,
                         last_message_at |-> c.ts2, is_active |-> TRUE ]
                 IN  \E t \in Now :
                       /\ clock' = t
                       /\ rConversations' = Append(rConversations, newConversation)
                       /\ Step(i, [ Saw(c, o) EXCEPT !.pc = "sc_message", !.ts = t,
                                                     !.conversationId = newConversation.id ])
  /\ UNCHANGED << notMsg, flagMsg, mockConversations, mockMessages, rMessages, marked >>

\* The insert of the message answers (lines 724-740); its error is not
\* looked at.  The conversation is then read back.
startConversation_message(i) ==
  LET c == calls[i] IN
  /\ c.pc = "sc_message"
  /\ \E o \in Outcomes("messages") :
       /\ IF o = "ok"
          THEN /\ rMessages' = Append(rMessages,
                                 Msg(MsgUuid[Len(rMessages) + 1], c.conversationId, c.user,
                                     c.sellerId, c.content, c.ts, FALSE))
               /\ marked' = marked \ { << c.conversationId, c.sellerId >> }
          ELSE UNCHANGED << rMessages, marked >>
       /\ Step(i, [ Saw(c, o) EXCEPT !.pc = "sc_get" ])
  /\ UNCHANGED << notMsg, flagMsg, clock, mockConversations, mockMessages, rConversations >>

\* The conversation read back (lines 736-750).
startConversation_get(i) ==
  LET c == calls[i] IN
  /\ c.pc = "sc_get"
  /\ \E o \in Outcomes("conversations") :
       LET found == { r \in Range(rConversations) : r.id = c.conversationId }
       IN  Step(i, IF o # "ok" THEN Throw(Saw(c, o), o)
                   ELSE IF found = {} THEN Throw(Saw(c, "PGRST116"), "PGRST116")
                   ELSE ReturnRows(Saw(c, o), << CHOOSE r \in found : TRUE >>, FALSE))
  /\ UNCHANGED << notMsg, flagMsg, clock, mockConversations, mockMessages,
                  rConversations, rMessages, marked >>

\* --------------------------------- the setTimeout of MessageService's mock paths
\* Lines 468-501, run by the timer of sendMessage's mock path.
MockSendMessage(i) ==
  LET c == calls[i]
      conversation == SelectSeq(mockConversations, LAMBDA conv : conv.id = c.conversationId)
  IN  IF conversation = << >>
      THEN /\ Step(i, Throw(c, "Conversation not found"))
           /\ UNCHANGED << clock, mockConversations, mockMessages >>
      ELSE \E t \in Now :
             LET newMessage == Msg(MockMsgId[Len(mockMessages) + 1], c.conversationId, c.user,
                                   OtherUserId(conversation[1], c.user), c.content, t, FALSE)
             IN  /\ clock' = t
                 /\ mockMessages' = Append(mockMessages, newMessage)
                 /\ mockConversations' = Touch(mockConversations, c.conversationId, t)
                 /\ Step(i, ReturnRows(c, << newMessage >>, TRUE))

\* Lines 613-671, run by the timer of startConversation's mock path.
MockStartConversation(i) ==
  LET c == calls[i]
      existingConversation ==
        SelectSeq(mockConversations, LAMBDA conv :
                    SameTriple(conv, c.listingId, c.user, c.sellerId))
  IN  IF existingConversation # << >>
      THEN \E t \in Now :
             /\ clock' = t
             /\ mockMessages' = Append(mockMessages,
                   Msg(MockMsgId[Len(mockMessages) + 1], existingConversation[1].id, c.user,
                       c.sellerId, c.content, t, FALSE))
             /\ mockConversations' = Touch(mockConversations, existingConversation[1].id, t)
             /\ Step(i, ReturnRows(c, << existingConversation[1] >>, TRUE))
      ELSE \E t \in Now : \E t2 \in After(t) : \E t3 \in After(t2) :
             LET newConversation ==
                   [ id |-> MockConvId[Len(mockConversations) + 1], listing_id |-> c.listingId,
                     buyer_id |-> c.user, seller_id |-> c.sellerId, created_at |-> t,
                     last_message_at |-> t2, is_active |-> TRUE ]
             IN  /\ clock' = t3
                 /\ mockConversations' = Append(mockConversations, newConversation)
                 /\ mockMessages' = Append(mockMessages,
                       Msg(MockMsgId[Len(mockMessages) + 1], newConversation.id, c.user,
                           c.sellerId, c.content, t3, FALSE))
                 /\ Step(i, ReturnRows(c, << newConversation >>, TRUE))

MessageService_timer(i) ==
  LET c == calls[i] IN
  /\ c.pc \in {"gc_mock", "gm_mock", "uc_mock", "sm_mock", "mr_mock", "sc_mock"}
  /\ IF c.pc = "gc_mock"
     THEN /\ Step(i, ReturnRows(c, MockGetConversations(c.user), TRUE))
          /\ UNCHANGED << clock, mockConversations, mockMessages >>
     ELSE IF c.pc = "gm_mock"
     THEN /\ Step(i, ReturnRows(c, MockGetMessages(c.conversationId), TRUE))
          /\ UNCHANGED << clock, mockConversations, mockMessages >>
     ELSE IF c.pc = "uc_mock"
     THEN /\ Step(i, ReturnCount(c, MockUnreadTotal(c.user), TRUE))
          /\ UNCHANGED << clock, mockConversations, mockMessages >>
     ELSE IF c.pc = "mr_mock"
     THEN /\ mockMessages' = MarkRead(mockMessages, c.conversationId, c.user)
          /\ Step(i, ReturnVoid(c, TRUE))
          /\ UNCHANGED << clock, mockConversations >>
     ELSE IF c.pc = "sm_mock" THEN MockSendMessage(i)
     ELSE MockStartConversation(i)
  /\ UNCHANGED << notMsg, flagMsg, rConversations, rMessages, marked >>

\* ============================================================ SavedItems
\* Variables no SavedItemsService operation writes.
notSaved == << tables, mode, session, clock, flagUsers, flagMsg, mockConversations,
               mockMessages, rConversations, rMessages, rProfiles, accounts, marked >>

\* addSavedItem / removeSavedItem / isSavedItem / getSavedItems up to the
\* first await: getUserId(), then the flag.
savedEnter(c, flag, mock, remote) ==
  IF session = NoUser THEN Throw(c, "Not authenticated")
  ELSE IF USE_MOCK_DATA \/ flag
       THEN [ c EXCEPT !.user = session, !.pc = mock ]
       ELSE [ c EXCEPT !.user = session, !.pc = remote, !.remote = TRUE ]

asEnter(c, flag) == savedEnter(c, flag, "as_mock", "as_upsert")
rsEnter_Adds(c, flag) == savedEnter(c, flag, "as_mock", "as_upsert")
rsEnter(c, flag) == savedEnter(c, flag, "rs_mock", "rs_delete")
isEnter(c, flag) == savedEnter(c, flag, "is_mock", "is_select")
gsEnter(c, flag) == savedEnter(c, flag, "gs_mock", "gs_saved")

\* toggleSavedItem (lines 209-219) around the calls it awaits: after
\* isSavedItem it calls removeSavedItem or addSavedItem, after that it returns.
Settle(c, flag) ==
  IF c.outer # "toggleSavedItem" \/ c.pc # "done" THEN c
  ELSE IF c.status = "err" THEN [ c EXCEPT !.op = "toggleSavedItem", !.outer = "none" ]
  ELSE IF c.op = "isSavedItem"
  THEN LET n == [ c EXCEPT !.op = IF c.bool THEN "removeSavedItem" ELSE "addSavedItem",
                           !.isSaved = c.bool, !.status = "none", !.pc = "start" ]
           e == IF c.bool THEN rsEnter(n, flag) ELSE asEnter(n, flag)
       IN  IF e.pc = "done" THEN [ e EXCEPT !.op = "toggleSavedItem", !.outer = "none" ] ELSE e
  ELSE [ c EXCEPT !.op = "toggleSavedItem", !.outer = "none", !.bool = ~c.isSaved ]

SStep(i, c, flag) == Step(i, Settle(c, flag))

addSavedItem(i, bookId, type) ==
  /\ CanStart(i)
  /\ Begin(i, asEnter([ New("addSavedItem", flagSaved) EXCEPT
                          !.bookId = bookId, !.type = type ], flagSaved))
  /\ UNCHANGED << notSaved, flagSaved, mockFavorites, mockWishlist, rSaved >>

removeSavedItem(i, bookId, type) ==
  /\ CanStart(i)
  /\ Begin(i, rsEnter([ New("removeSavedItem", flagSaved) EXCEPT
                          !.bookId = bookId, !.type = type ], flagSaved))
  /\ UNCHANGED << notSaved, flagSaved, mockFavorites, mockWishlist, rSaved >>

isSavedItem(i, bookId, type) ==
  /\ CanStart(i)
  /\ Begin(i, isEnter([ New("isSavedItem", flagSaved) EXCEPT
                          !.bookId = bookId, !.type = type ], flagSaved))
  /\ UNCHANGED << notSaved, flagSaved, mockFavorites, mockWishlist, rSaved >>

toggleSavedItem(i, bookId, type) ==
  /\ CanStart(i)
  /\ Begin(i, Settle(isEnter([ New("isSavedItem", flagSaved) EXCEPT
                                 !.bookId = bookId, !.type = type,
                                 !.outer = "toggleSavedItem" ], flagSaved), flagSaved))
  /\ UNCHANGED << notSaved, flagSaved, mockFavorites, mockWishlist, rSaved >>

getSavedItems(i, type) ==
  /\ CanStart(i)
  /\ Begin(i, gsEnter([ New("getSavedItems", flagSaved) EXCEPT !.type = type ], flagSaved))
  /\ UNCHANGED << notSaved, flagSaved, mockFavorites, mockWishlist, rSaved >>

Row(c) == << c.user, c.bookId, c.type >>

\* The upsert answers (lines 66-94).  upsert() resolves conflicts on the
\* primary key, id, which the row does not give: a second row for the same
\* (user_id, book_id, type) violates the table's UNIQUE constraint (23505).
addSavedItem_upsert(i) ==
  LET c == calls[i] IN
  /\ c.pc = "as_upsert"
  /\ \E o \in Outcomes("saved_items") :
       LET f2 == FlagAfter(flagSaved, o) IN
       /\ flagSaved' = f2
       /\ IF o # "ok"
          THEN /\ SStep(i, IF isTableNotExistError(o) THEN asEnter(Saw(c, o), f2)
                           ELSE Throw(Saw(c, o), o), f2)
               /\ rSaved' = rSaved
          ELSE IF Row(c) \in rSaved
               THEN SStep(i, Throw(Saw(c, "23505"), "23505"), f2) /\ rSaved' = rSaved
               ELSE SStep(i, ReturnVoid(Saw(c, o), FALSE), f2) /\ rSaved' = rSaved \cup { Row(c) }
  /\ UNCHANGED << notSaved, mockFavorites, mockWishlist >>

\* The delete answers (lines 122-146).
removeSavedItem_delete(i) ==
  LET c == calls[i] IN
  /\ c.pc = "rs_delete"
  /\ \E o \in Outcomes("saved_items") :
       LET f2 == FlagAfter(flagSaved, o) IN
       /\ flagSaved' = f2
       /\ IF o # "ok"
          THEN /\ SStep(i, IF isTableNotExistError(o) THEN rsEnter(Saw(c, o), f2)
                           ELSE Throw(Saw(c, o), o), f2)
               /\ rSaved' = rSaved
          ELSE SStep(i, ReturnVoid(Saw(c, o), FALSE), f2) /\ rSaved' = rSaved \ { Row(c) }
  /\ UNCHANGED << notSaved, mockFavorites, mockWishlist >>

\* The select answers (lines 174-203): no row (PGRST116) is not an error;
\* the catch returns false for an error that is not 42P01.
isSavedItem_select(i) ==
  LET c == calls[i] IN
  /\ c.pc = "is_select"
  /\ \E o \in Outcomes("saved_items") :
       LET f2 == FlagAfter(flagSaved, o) IN
       /\ flagSaved' = f2
       /\ SStep(i, IF o = "ok" THEN ReturnBool(Saw(c, o), Row(c) \in rSaved, FALSE)
                   ELSE IF isTableNotExistError(o) THEN isEnter(Saw(c, o), f2)
                   ELSE ReturnBool(Saw(c, o), FALSE, FALSE), f2)
  /\ UNCHANGED << notSaved, mockFavorites, mockWishlist, rSaved >>

\* The rows of book_listings in the order of created_at descending.
AllBooks == << "book-005", "book-001" >>
Includes_Never(s, x) == FALSE
\* Array.prototype.includes
Includes(s, x) == \E k \in 1..Len(s) : s[k] = x

\* The saved_items select answers (lines 251-274).
getSavedItems_saved(i) ==
  LET c == calls[i] IN
  /\ c.pc = "gs_saved"
  /\ \E o \in Outcomes("saved_items") :
       LET f2 == FlagAfter(flagSaved, o)
           data == { r \in rSaved : r[1] = c.user /\ r[3] = c.type }
       IN  /\ flagSaved' = f2
           /\ Step(i, IF o = "ok"
                      THEN IF data = {} THEN ReturnRows(Saw(c, o), << >>, FALSE)
                           ELSE [ Saw(c, o) EXCEPT !.pc = "gs_books" ]
                      ELSE IF isTableNotExistError(o) THEN gsEnter(Saw(c, o), f2)
                      ELSE ReturnRows(Saw(c, o), << >>, FALSE))
  /\ UNCHANGED << notSaved, mockFavorites, mockWishlist, rSaved >>

\* The book_listings select answers (lines 271-292): its error is thrown
\* into the same catch, which tests it with isTableNotExistError.
getSavedItems_books(i) ==
  LET c == calls[i] IN
  /\ c.pc = "gs_books"
  /\ \E o \in Outcomes("book_listings") :
       LET f2 == FlagAfter(flagSaved, o)
           bookIds == { r[2] : r \in { r \in rSaved : r[1] = c.user /\ r[3] = c.type } }
       IN  /\ flagSaved' = f2
           /\ Step(i, IF o = "ok"
                      THEN ReturnRows(SawForeign(c, o),
                                      SelectSeq(AllBooks, LAMBDA b : b \in bookIds), FALSE)
                      ELSE IF isTableNotExistError(o) THEN gsEnter(SawForeign(c, o), f2)
                      ELSE ReturnRows(SawForeign(c, o), << >>, FALSE))
  /\ UNCHANGED << notSaved, mockFavorites, mockWishlist, rSaved >>

\* BookService.getListings() answers inside the timer callback of the mock
\* path (lines 233-246): when it throws, nothing resolves or rejects the
\* promise getSavedItems returned.
getSavedItems_listings(i) ==
  LET c == calls[i] IN
  /\ c.pc = "gs_listings"
  /\ \E o \in Outcomes("book_listings") :
       LET savedIds == IF c.type = "favorite" THEN mockFavorites[c.user]
                       ELSE mockWishlist[c.user]
       IN  Step(i, IF o = "ok"
                   THEN ReturnRows(SawForeign(c, o),
                                   SelectSeq(AllBooks, LAMBDA b : Includes(savedIds, b)), TRUE)
                   ELSE [ SawForeign(c, o) EXCEPT !.pc = "hung" ])
  /\ UNCHANGED << notSaved, flagSaved, mockFavorites, mockWishlist, rSaved >>

\* The setTimeout of SavedItemsService's mock paths (lines 47-61, 109-117,
\* 161-169, 233-235).
SavedItemsService_timer(i) ==
  LET c == calls[i]
      list == IF c.type = "favorite" THEN mockFavorites[c.user] ELSE mockWishlist[c.user]
      Put(new) == IF c.type = "favorite"
                  THEN /\ mockFavorites' = [ mockFavorites EXCEPT ![c.user] = new ]
                       /\ mockWishlist' = mockWishlist
                  ELSE /\ mockWishlist' = [ mockWishlist EXCEPT ![c.user] = new ]
                       /\ mockFavorites' = mockFavorites
  IN
  /\ c.pc \in {"as_mock", "rs_mock", "is_mock", "gs_mock"}
  /\ IF c.pc = "as_mock"
     THEN /\ Put(IF Includes(list, c.bookId) THEN list ELSE Append(list, c.bookId))
          /\ SStep(i, ReturnVoid(c, TRUE), flagSaved)
     ELSE IF c.pc = "rs_mock"
     THEN /\ Put(SelectSeq(list, LAMBDA id : id # c.bookId))
          /\ SStep(i, ReturnVoid(c, TRUE), flagSaved)
     ELSE IF c.pc = "is_mock"
     THEN /\ SStep(i, ReturnBool(c, Includes(list, c.bookId), TRUE), flagSaved)
          /\ UNCHANGED << mockFavorites, mockWishlist >>
     ELSE /\ Step(i, [ c EXCEPT !.pc = "gs_listings" ])
          /\ UNCHANGED << mockFavorites, mockWishlist >>
  /\ UNCHANGED << notSaved, flagSaved, rSaved >>

SavedNext ==
  \E i \in CallIds :
     \/ \E bookId \in BookArgs, type \in TypeArgs : addSavedItem(i, bookId, type)
     \/ \E bookId \in BookArgs, type \in TypeArgs : removeSavedItem(i, bookId, type)
     \/ \E bookId \in BookArgs, type \in TypeArgs : isSavedItem(i, bookId, type)
     \/ \E bookId \in BookArgs, type \in TypeArgs : toggleSavedItem(i, bookId, type)
     \/ \E type \in TypeArgs : getSavedItems(i, type)
     \/ addSavedItem_upsert(i)
     \/ removeSavedItem_delete(i)
     \/ isSavedItem_select(i)
     \/ getSavedItems_saved(i)
     \/ getSavedItems_books(i)
     \/ getSavedItems_listings(i)
     \/ SavedItemsService_timer(i)

\* ================================================================= Users
\* Variables no UserService operation writes.
notUsers == << tables, mode, clock, flagSaved, flagMsg, mockConversations, mockMessages,
               mockFavorites, mockWishlist, rConversations, rMessages, rSaved, marked >>

\* String.prototype.toLowerCase on the emails the callers pass.
toLowerCase(e) == IF e = "John.Smith@Example.com" THEN "john.smith@example.com" ELSE e
\* email.split('@')[0]
LocalPart(email) ==
  CASE email = "john.smith@example.com" -> "john.smith"
    [] email = "emily.wong@example.com" -> "emily.wong"
    [] email = "new@example.com" -> "new"
    [] OTHER -> email
\* auth.users: the id of the account of an email, and back.
AuthId(email) ==
  CASE email = "john.smith@example.com" -> "user-001"
    [] email = "emily.wong@example.com" -> "user-002"
    [] OTHER -> "user-new"
AuthEmail(id) ==
  CASE id = "user-001" -> "john.smith@example.com"
    [] id = "user-002" -> "emily.wong@example.com"
    [] OTHER -> "new@example.com"
\* What a request to the auth service can answer; the service compares
\* emails in lower case.
AuthOutcomes == {"ok", "other"}

\* mockUsers.find(user => user.email.toLowerCase() === email.toLowerCase())
MockUserByEmail(email) ==
  SelectSeq(mockUsers, LAMBDA user : toLowerCase(user.email) = toLowerCase(email))
getMockSellerById(sellerId) == SelectSeq(mockUsers, LAMBDA user : user.id = sellerId)

\* Every UserService operation looks at the flag first (signOut at
\* USE_MOCK_DATA only).
usersEnter(c, flag, mock, remote) ==
  IF USE_MOCK_DATA \/ flag THEN [ c EXCEPT !.pc = mock ] ELSE [ c EXCEPT !.pc = remote ]

\* ------------------------------------------------------ UserService.signIn
signIn(i, email, password) ==
  /\ CanStart(i)
  /\ Begin(i, usersEnter([ New("signIn", flagUsers) EXCEPT
                             !.email = email, !.password = password ],
                         flagUsers, "si_mock", "si_auth"))
  /\ UNCHANGED << notUsers, session, flagUsers, rProfiles, accounts >>

\* signInWithPassword answers (lines 77-91); the profile query goes out.
signIn_auth(i) ==
  LET c == calls[i] IN
  /\ c.pc = "si_auth"
  /\ \E o \in AuthOutcomes :
       IF o # "ok" THEN Step(i, Throw(Saw(c, o), o)) /\ session' = session
       ELSE IF << toLowerCase(c.email), c.password >> \notin accounts
            THEN /\ Step(i, Throw(Saw(c, "invalid_credentials"), "invalid_credentials"))
                 /\ session' = session
            ELSE /\ session' = AuthId(toLowerCase(c.email))
                 /\ Step(i, [ Saw(c, o) EXCEPT !.pc = "si_profile", !.remote = TRUE,
                                               !.user = AuthId(toLowerCase(c.email)) ])
  /\ UNCHANGED << notUsers, flagUsers, rProfiles, accounts >>

\* The profile row answers (lines 93-140).
signIn_profile(i) ==
  LET c == calls[i] IN
  /\ c.pc = "si_profile"
  /\ \E o \in Outcomes("user_profiles") :
       LET profileData == { p \in rProfiles : p.id = c.user }
           mockUser == MockUserByEmail(c.email)
       IN  /\ flagUsers' = FlagAfter(flagUsers, o)
           /\ Step(i, IF isTableNotExistError(o)
                      THEN ReturnRows(Saw(c, o),
                             << User(c.user, AuthEmail(c.user),
                                     IF mockUser # << >> THEN mockUser[1].name
                                     ELSE LocalPart(AuthEmail(c.user))) >>, TRUE)
                      ELSE IF o # "ok" THEN Throw(Saw(c, o), o)
                      ELSE IF profileData = {}
                           THEN Throw(Saw(c, "PGRST116"), "PGRST116")
                           ELSE ReturnRows(Saw(c, o),
                                  << User(c.user, AuthEmail(c.user),
                                          (CHOOSE p \in profileData : TRUE).name) >>, FALSE))
  /\ UNCHANGED << notUsers, session, rProfiles, accounts >>

\* ------------------------------------------------------ UserService.signUp
signUp(i, email, password, name) ==
  /\ CanStart(i)
  /\ Begin(i, usersEnter([ New("signUp", flagUsers) EXCEPT
                             !.email = email, !.password = password, !.name = name ],
                         flagUsers, "su_mock", "su_auth"))
  /\ UNCHANGED << notUsers, session, flagUsers, rProfiles, accounts >>

\* auth.signUp answers (lines 178-201): the account is created and signed in.
signUp_auth(i) ==
  LET c == calls[i] IN
  /\ c.pc = "su_auth"
  /\ \E o \in AuthOutcomes :
       IF o # "ok" THEN Step(i, Throw(Saw(c, o), o)) /\ UNCHANGED << session, accounts >>
       ELSE IF \E a \in accounts : a[1] = toLowerCase(c.email)
            THEN /\ Step(i, Throw(Saw(c, "user_already_exists"), "user_already_exists"))
                 /\ UNCHANGED << session, accounts >>
            ELSE /\ accounts' = accounts \cup { << toLowerCase(c.email), c.password >> }
                 /\ session' = AuthId(toLowerCase(c.email))
                 /\ Step(i, [ Saw(c, o) EXCEPT !.pc = "su_profile", !.remote = TRUE,
                                               !.user = AuthId(toLowerCase(c.email)) ])
  /\ UNCHANGED << notUsers, flagUsers, rProfiles >>

\* The insert of the profile answers (lines 203-230); the row carries no email.
signUp_profile(i) ==
  LET c == calls[i] IN
  /\ c.pc = "su_profile"
  /\ \E o \in Outcomes("user_profiles") :
       /\ flagUsers' = FlagAfter(flagUsers, o)
       /\ rProfiles' = IF o = "ok" THEN rProfiles \cup { User(c.user, Undefined, c.name) }
                       ELSE rProfiles
       /\ Step(i, IF isTableNotExistError(o)
                  THEN ReturnRows(Saw(c, o), << User(c.user, AuthEmail(c.user), c.name) >>, TRUE)
                  ELSE IF o # "ok" THEN Throw(Saw(c, o), o)
                  ELSE ReturnRows(Saw(c, o), << User(c.user, AuthEmail(c.user), c.name) >>, FALSE))
  /\ UNCHANGED << notUsers, session, accounts >>

\* ----------------------------------------------------- UserService.signOut
signOut(i) ==
  /\ CanStart(i)
  /\ Begin(i, [ New("signOut", flagUsers) EXCEPT
                  !.pc = IF USE_MOCK_DATA THEN "so_mock" ELSE "so_auth" ])
  /\ UNCHANGED << notUsers, session, flagUsers, rProfiles, accounts >>

signOut_auth(i) ==
  LET c == calls[i] IN
  /\ c.pc = "so_auth"
  /\ \E o \in AuthOutcomes :
       /\ session' = IF o = "ok" THEN NoUser ELSE session
       /\ Step(i, IF o = "ok" THEN ReturnVoid(Saw(c, o), FALSE) ELSE Throw(Saw(c, o), o))
  /\ UNCHANGED << notUsers, flagUsers, rProfiles, accounts >>

\* ---------------------------------------------- UserService.getCurrentUser
\* Lines 265-303: the flag, then getSession(); null when nobody is signed in.
cuEnter(c, flag) ==
  IF USE_MOCK_DATA \/ flag THEN [ c EXCEPT !.pc = "cu_mock" ]
  ELSE IF session = NoUser THEN ReturnRows(c, << >>, FALSE)
  ELSE [ c EXCEPT !.user = session, !.pc = "cu_profile", !.remote = TRUE ]

getCurrentUser(i) ==
  /\ CanStart(i)
  /\ Begin(i, cuEnter(New("getCurrentUser", flagUsers), flagUsers))
  /\ UNCHANGED << notUsers, session, flagUsers, rProfiles, accounts >>

\* The profile row answers (lines 305-345): the catch returns null.
getCurrentUser_profile(i) ==
  LET c == calls[i] IN
  /\ c.pc = "cu_profile"
  /\ \E o \in Outcomes("user_profiles") :
       LET profileData == { p \in rProfiles : p.id = c.user } IN
       /\ flagUsers' = FlagAfter(flagUsers, o)
       /\ Step(i, IF isTableNotExistError(o)
                  THEN ReturnRows(Saw(c, o),
                         << User(c.user, AuthEmail(c.user), mockUsers[1].name) >>, TRUE)
                  ELSE IF o # "ok" THEN ReturnRows(Saw(c, o), << >>, FALSE)
                  ELSE IF profileData = {} THEN ReturnRows(Saw(c, "PGRST116"), << >>, FALSE)
                  ELSE ReturnRows(Saw(c, o),
                         << User(c.user, AuthEmail(c.user),
                                 (CHOOSE p \in profileData : TRUE).name) >>, FALSE))
  /\ UNCHANGED << notUsers, session, rProfiles, accounts >>

\* ------------------------------------------------- UserService.getUserById
getUserById(i, userId) ==
  /\ CanStart(i)
  /\ Begin(i, [ usersEnter([ New("getUserById", flagUsers) EXCEPT !.userId = userId ],
                           flagUsers, "ub_mock", "ub_profile")
                EXCEPT !.remote = ~(USE_MOCK_DATA \/ flagUsers) ])
  /\ UNCHANGED << notUsers, session, flagUsers, rProfiles, accounts >>

\* The profile row answers (lines 384-427): the catch returns null.
getUserById_profile(i) ==
  LET c == calls[i] IN
  /\ c.pc = "ub_profile"
  /\ \E o \in Outcomes("user_profiles") :
       LET data == { p \in rProfiles : p.id = c.userId } IN
       /\ flagUsers' = FlagAfter(flagUsers, o)
       /\ Step(i, IF isTableNotExistError(o)
                  THEN ReturnRows(Saw(c, o), getMockSellerById(c.userId), TRUE)
                  ELSE IF o # "ok" THEN ReturnRows(Saw(c, o), << >>, FALSE)
                  ELSE IF data = {} THEN ReturnRows(Saw(c, "PGRST116"), << >>, FALSE)
                  ELSE ReturnRows(Saw(c, o), << CHOOSE p \in data : TRUE >>, FALSE))
  /\ UNCHANGED << notUsers, session, rProfiles, accounts >>

\* ----------------------------------------------- UserService.updateProfile
upEnter(c, flag) ==
  [ usersEnter(c, flag, "up_mock", "up_update") EXCEPT
      !.remote = @ \/ ~(USE_MOCK_DATA \/ flag) ]

updateProfile(i, userId, name) ==
  /\ CanStart(i)
  /\ Begin(i, upEnter([ New("updateProfile", flagUsers) EXCEPT
                          !.userId = userId, !.name = name ], flagUsers))
  /\ UNCHANGED << notUsers, session, flagUsers, rProfiles, accounts >>

\* The update answers (lines 480-509); user_profiles_update_policy lets a
\* user update the row of their own id only.
updateProfile_update(i) ==
  LET c == calls[i] IN
  /\ c.pc = "up_update"
  /\ \E o \in Outcomes("user_profiles") :
       LET f2 == FlagAfter(flagUsers, o)
           data == { p \in rProfiles : p.id = c.userId /\ p.id = session }
           new == { [ p EXCEPT !.name = c.name ] : p \in data }
       IN  /\ flagUsers' = f2
           /\ rProfiles' = IF o = "ok" THEN (rProfiles \ data) \cup new ELSE rProfiles
           /\ Step(i, IF isTableNotExistError(o) THEN upEnter(Saw(c, o), f2)
                      ELSE IF o # "ok" THEN Throw(Saw(c, o), o)
                      ELSE IF data = {} THEN Throw(Saw(c, "PGRST116"), "PGRST116")
                      ELSE ReturnRows(Saw(c, o), << CHOOSE p \in new : TRUE >>, FALSE))
  /\ UNCHANGED << notUsers, session, accounts >>

\* The setTimeout of UserService's mock paths (lines 52-72, 154-172,
\* 270-288, 355-373, 437-462); none of them writes the fixtures.
UserService_timer(i) ==
  LET c == calls[i] IN
  /\ c.pc \in {"si_mock", "su_mock", "cu_mock", "ub_mock", "up_mock"}
  /\ Step(i,
       IF c.pc = "si_mock"
       THEN IF MockUserByEmail(c.email) # << >>
            THEN ReturnRows(c, << MockUserByEmail(c.email)[1] >>, TRUE)
            ELSE Throw(c, "Invalid email or password")
       ELSE IF c.pc = "su_mock"
       THEN IF MockUserByEmail(c.email) # << >>
            THEN Throw(c, "Email already in use")
            ELSE ReturnRows(c, << User("user-random", c.email, c.name) >>, TRUE)
       ELSE IF c.pc = "cu_mock" THEN ReturnRows(c, << mockUsers[1] >>, TRUE)
       ELSE IF c.pc = "ub_mock" THEN ReturnRows(c, getMockSellerById(c.userId), TRUE)
       ELSE IF getMockSellerById(c.userId) = << >> THEN Throw(c, "User not found")
       ELSE ReturnRows(c, << [ getMockSellerById(c.userId)[1] EXCEPT !.name = c.name ] >>, TRUE))
  /\ UNCHANGED << notUsers, session, flagUsers, rProfiles, accounts >>

UsersNext ==
  \E i \in CallIds :
     \/ \E email \in EmailArgs, password \in PasswordArgs : signIn(i, email, password)
     \/ signIn_auth(i)
     \/ signIn_profile(i)
     \/ \E email \in EmailArgs, password \in PasswordArgs, name \in NameArgs :
          signUp(i, email, password, name)
     \/ signUp_auth(i)
     \/ signUp_profile(i)
     \/ signOut(i)
     \/ signOut_auth(i)
     \/ getCurrentUser(i)
     \/ getCurrentUser_profile(i)
     \/ \E userId \in UserIdArgs : getUserById(i, userId)
     \/ getUserById_profile(i)
     \/ \E userId \in UserIdArgs, name \in NameArgs : updateProfile(i, userId, name)
     \/ updateProfile_update(i)
     \/ UserService_timer(i)

\* ------------------------------------------------------ the specifications
InitStores ==
  /\ clock = ClockStart
  /\ flagUsers = FALSE /\ flagSaved = FALSE /\ flagMsg = FALSE
  /\ mockConversations = SeedConversations
  /\ mockMessages = SeedMessages
  /\ mockFavorites = [ u \in UserIds |-> << >> ]
  /\ mockWishlist = [ u \in UserIds |-> << >> ]
  /\ rConversations = (IF "conversations" \in tables THEN RemoteConversations0 ELSE << >>)
  /\ rMessages = (IF "messages" \in tables THEN RemoteMessages0 ELSE << >>)
  /\ rSaved = {}
  /\ rProfiles = (IF "user_profiles" \in tables THEN RemoteProfiles0 ELSE {})
  /\ accounts = Accounts0
  /\ calls = [ j \in CallIds |-> Idle ]
  /\ started = 0
  /\ marked = {}

MsgNext ==
  \E i \in CallIds :
     \/ getConversations(i)
     \/ getConversations_conversations(i)
     \/ \E k \in ConvIdsOf(calls[i].conversations) : getConversations_unreadCount(i, k)
     \/ \E k \in ConvIdsOf(calls[i].conversations) : getConversations_lastMessage(i, k)
     \/ getConversations_users(i)
     \/ getConversations_listings(i)
     \/ \E conversationId \in ConvArgs : getMessages(i, conversationId)
     \/ getMessages_messages(i)
     \/ getUnreadCount(i)
     \/ getUnreadCount_messages(i)
     \/ \E conversationId \in ConvArgs, content \in ContentArgs :
          sendMessage(i, conversationId, content)
     \/ sendMessage_conversation(i)
     \/ sendMessage_insert(i)
     \/ sendMessage_update(i)
     \/ \E conversationId \in ConvArgs : markMessagesAsRead(i, conversationId)
     \/ markMessagesAsRead_update(i)
     \/ \E listingId \in ListingArgs, sellerId \in SellerArgs, content \in ContentArgs :
          startConversation(i, listingId, sellerId, content)
     \/ startConversation_check(i)
     \/ startConversation_touch(i)
     \/ startConversation_create(i)
     \/ startConversation_message(i)
     \/ startConversation_get(i)
     \/ MessageService_timer(i)

\* MessageService alone, calls overlapping: the conversations and messages
\* relations exist or not, the caller is one user or nobody.
InitMsg ==
  /\ tables \in { Tables \ missing : missing \in SUBSET {"conversations", "messages"} }
  /\ session \in SessionUsers \cup {NoUser}
  /\ mode = "overlap"
  /\ InitStores
SpecMsg == InitMsg /\ [][MsgNext]_vars

\* SavedItemsService alone: the saved_items and book_listings relations
\* exist or not.
InitSaved ==
  /\ tables \in { Tables \ missing : missing \in SUBSET {"saved_items", "book_listings"} }
  /\ session \in SessionUsers \cup {NoUser}
  /\ mode = "overlap"
  /\ InitStores
SpecSaved == InitSaved /\ [][SavedNext]_vars

InitSavedSeq ==
  /\ tables \in { Tables \ missing : missing \in SUBSET {"saved_items", "book_listings"} }
  /\ session \in SessionUsers \cup {NoUser}
  /\ mode = "seq"
  /\ InitStores
SpecSavedSeq == InitSavedSeq /\ [][SavedNext]_vars

\* The same under the scheduling the runtime gives: a request that was sent
\* is answered (by rows or by an error, a timeout at the latest), and a
\* timer that was set fires.
SavedAnswers(i) ==
  \/ addSavedItem_upsert(i)
  \/ removeSavedItem_delete(i)
  \/ isSavedItem_select(i)
  \/ getSavedItems_saved(i)
  \/ getSavedItems_books(i)
  \/ getSavedItems_listings(i)
  \/ SavedItemsService_timer(i)
SpecSavedFair ==
  InitSavedSeq /\ [][SavedNext]_vars /\ \A i \in CallIds : WF_vars(SavedAnswers(i))

\* UserService alone: the user_profiles relation exists or not.
InitUsers ==
  /\ tables \in { Tables \ missing : missing \in SUBSET {"user_profiles"} }
  /\ session \in {"user-001", NoUser}
  /\ mode = "overlap"
  /\ InitStores
SpecUsers == InitUsers /\ [][UsersNext]_vars

\* The three services together; one relation at most is missing.
Next == MsgNext \/ SavedNext \/ UsersNext
Init ==
  /\ tables \in { Tables } \cup { Tables \ {t} : t \in Tables }
  /\ session \in {"user-001", NoUser}
  /\ mode = "overlap"
  /\ InitStores
Spec == Init /\ [][Next]_vars

\* MessageService alone, one caller awaiting each call before the next.
InitMsgSeq ==
  /\ tables \in { Tables \ missing : missing \in SUBSET {"conversations", "messages"} }
  /\ session \in SessionUsers \cup {NoUser}
  /\ mode = "seq"
  /\ InitStores
SpecMsgSeq == InitMsgSeq /\ [][MsgNext]_vars

\* A caller that sends messages and reads them back, one call at a time:
\* sendMessage, getMessages and getConversations only.
SendReadNext ==
  \E i \in CallIds :
     \/ getConversations(i)
     \/ getConversations_conversations(i)
     \/ \E k \in ConvIdsOf(calls[i].conversations) : getConversations_unreadCount(i, k)
     \/ \E k \in ConvIdsOf(calls[i].conversations) : getConversations_lastMessage(i, k)
     \/ getConversations_users(i)
     \/ getConversations_listings(i)
     \/ \E conversationId \in ConvArgs : getMessages(i, conversationId)
     \/ getMessages_messages(i)
     \/ \E conversationId \in ConvArgs, content \in ContentArgs \cup {"Bye"} :
          sendMessage(i, conversationId, content)
     \/ sendMessage_conversation(i)
     \/ sendMessage_insert(i)
     \/ sendMessage_update(i)
     \/ MessageService_timer(i)
SpecSendRead == InitMsgSeq /\ [][SendReadNext]_vars

\* The two operations of MessageService that write messages, calls
\* overlapping, the callers passing empty content as well.
SendNext ==
  \E i \in CallIds :
     \/ \E conversationId \in ConvArgs, content \in ContentArgs \cup {""} :
          sendMessage(i, conversationId, content)
     \/ sendMessage_conversation(i)
     \/ sendMessage_insert(i)
     \/ sendMessage_update(i)
     \/ \E listingId \in ListingArgs, sellerId \in SellerArgs,
           content \in ContentArgs \cup {""} :
          startConversation(i, listingId, sellerId, content)
     \/ startConversation_check(i)
     \/ startConversation_touch(i)
     \/ startConversation_create(i)
     \/ startConversation_message(i)
     \/ startConversation_get(i)
SpecSend == InitMsg /\ [][SendNext]_vars

\* MessageService in the development build (USE_MOCK_DATA = true, every
\* operation on the fixture store), one caller awaiting each call.  The
\* callers also name the second seed conversation and its seller.
NextDev ==
  \E i \in CallIds :
     \/ getConversations(i)
     \/ \E conversationId \in ConvArgs \cup {"conv-002"} : getMessages(i, conversationId)
     \/ getUnreadCount(i)
     \/ \E conversationId \in ConvArgs \cup {"conv-002"}, content \in ContentArgs :
          sendMessage(i, conversationId, content)
     \/ \E conversationId \in ConvArgs \cup {"conv-002"} : markMessagesAsRead(i, conversationId)
     \/ \E listingId \in ListingArgs, sellerId \in SellerArgs \cup {"user-005"},
           content \in ContentArgs : startConversation(i, listingId, sellerId, content)
     \/ MessageService_timer(i)
InitDev ==
  /\ tables = Tables
  /\ session \in SessionUsers \cup {NoUser}
  /\ mode = "dev"
  /\ InitStores
SpecDev == InitDev /\ [][NextDev]_vars

\* ============================================================ properties
MsgOps == {"getConversations", "getMessages", "getUnreadCount", "sendMessage",
           "markMessagesAsRead", "startConversation"}

\* C1 (as the spec states it): an operation called while its module's
\* fallback flag is true issues no request to a remote table and, when it
\* returns, has returned what the fixture path gives.
C1_FallbackStickiness ==
  \A i \in CallIds :
     calls[i].flag0 =>
        /\ ~calls[i].remote
        /\ (calls[i].pc = "done" /\ calls[i].status = "ok" => calls[i].fixture)

\* C2: the three fallback flags are false initially and no step ever takes
\* one of them from true to false.
C2_FlagsMonotonic ==
  /\ ~flagUsers /\ ~flagSaved /\ ~flagMsg
  /\ [][ /\ flagUsers => flagUsers'
         /\ flagSaved => flagSaved'
         /\ flagMsg => flagMsg' ]_vars

\* A call that started with its module's flag set has returned, the flag still set.
C2_Witness ==
  \E i \in CallIds :
     /\ calls[i].pc = "done" /\ calls[i].flag0
     /\ flagUsers \/ flagSaved \/ flagMsg

\* C3 (as the spec states it): an operation that was answered relation-missing
\* by a table of its module does not fail: it returns the fixture path's
\* result, its module's flag set.
C3_RelationMissingRecovered ==
  \A i \in CallIds :
     calls[i].pc = "done" /\ calls[i].saw42 =>
        /\ calls[i].status = "ok" /\ calls[i].fixture
        /\ (calls[i].op \in MsgOps => flagMsg)

\* C4 (as the spec states it): isSavedItem, getSavedItems, getUnreadCount,
\* getUserById and getCurrentUser, when the answer they last got is a failure
\* other than relation-missing, fail to their caller with that error.
C4_OtherFailuresPropagate ==
  \A i \in CallIds :
     ( /\ calls[i].pc = "done"
       /\ calls[i].op \in {"isSavedItem", "getSavedItems", "getUnreadCount",
                           "getUserById", "getCurrentUser"}
       /\ calls[i].last = "other" )
     => calls[i].status = "err" /\ calls[i].error = "other"

\* C5: a step in which a call is answered a failure other than 42P01
\* (bad credentials, transport, row not found), or in which it fails before
\* any request or in a fixture path (not logged in, unknown email), leaves
\* the three flags and the
\* fixture collections as they were, and the call does not return fixture
\* data in it.
C5_NoFallbackOnOtherFailures ==
  [][ \A i \in CallIds :
        ( \/ /\ AwaitsRemote(calls[i]) /\ calls'[i] # calls[i]
             /\ calls'[i].last \notin {"ok", "42P01"}
          \/ /\ ~AwaitsRemote(calls[i])
             /\ calls[i].status # "err" /\ calls'[i].status = "err"
             /\ calls'[i].error # "42P01" )
        => /\ flagVars' = flagVars
           /\ fixtureVars' = fixtureVars
           /\ (calls'[i].pc = "done" /\ calls'[i].status = "ok" => ~calls'[i].fixture) ]_vars

\* A call was answered a transport failure and has failed with it.
C5_Witness ==
  \E i \in CallIds :
     /\ calls[i].pc = "done" /\ calls[i].last = "other"
     /\ calls[i].status = "err" /\ calls[i].error = "other"
     /\ ~calls[i].flag0

\* C6 (as the spec states it): conversations exists and gave getConversations
\* at least one row, messages is missing: the call returns the fixture path's
\* result, the Messaging flag set.
C6_EitherRelationMissing ==
  \A i \in CallIds :
     ( /\ calls[i].op = "getConversations" /\ calls[i].pc = "done"
       /\ calls[i].nRows >= 1
       /\ "conversations" \in tables /\ "messages" \notin tables )
     => /\ flagMsg
        /\ calls[i].status = "ok" /\ calls[i].fixture
        /\ calls[i].rows = MockGetConversations(calls[i].user)

\* C7 (as the spec states it): a module's flag is set only after a table of
\* that module has answered relation-missing, that is, only when such a
\* table is missing.
C7_FlagsIndependent ==
  /\ flagUsers => "user_profiles" \notin tables
  /\ flagSaved => "saved_items" \notin tables
  /\ flagMsg => ("conversations" \notin tables \/ "messages" \notin tables)

\* C8 (as the spec states it): no two conversations share (listing_id,
\* buyer_id, seller_id), and two startConversation calls of one buyer for one
\* listing and seller, both answered by the remote store without a transport
\* failure, both succeed and leave one conversation holding both messages.
C8_ConversationDedup ==
  /\ \A a, b \in 1..Len(rConversations) :
        a # b => ~SameTriple(rConversations[a], rConversations[b].listing_id,
                             rConversations[b].buyer_id, rConversations[b].seller_id)
  /\ \A a, b \in 1..Len(mockConversations) :
        a # b => ~SameTriple(mockConversations[a], mockConversations[b].listing_id,
                             mockConversations[b].buyer_id, mockConversations[b].seller_id)
  /\ \A i, j \in CallIds :
        ( /\ i # j
          /\ calls[i].op = "startConversation" /\ calls[j].op = "startConversation"
          /\ calls[i].pc = "done" /\ calls[j].pc = "done"
          /\ calls[i].user # NoUser /\ calls[i].user = calls[j].user
          /\ calls[i].listingId = calls[j].listingId
          /\ calls[i].sellerId = calls[j].sellerId
          /\ ~calls[i].sawOther /\ ~calls[j].sawOther
          /\ {"conversations", "messages"} \subseteq tables )
        => /\ calls[i].status = "ok" /\ calls[j].status = "ok"
           /\ \E r \in Range(rConversations) :
                 /\ SameTriple(r, calls[i].listingId, calls[i].user, calls[i].sellerId)
                 /\ Cardinality({ m \in Range(rMessages) :
                                    m.conversation_id = r.id /\ m.sender_id = calls[i].user }) >= 2

\* C9 (as the spec states it): every entry getConversations returned carries
\* as unreadCount the number of unread messages to the caller in that
\* conversation, in the store that served the call.
C9_UnreadCount ==
  \A i \in CallIds :
     ( calls[i].op = "getConversations" /\ calls[i].pc = "done" /\ calls[i].status = "ok" )
     => \A k \in 1..Len(calls[i].rows) :
           calls[i].rows[k].unreadCount =
              IF calls[i].fixture THEN MockUnreadCount(calls[i].rows[k].id, calls[i].user)
              ELSE RemoteUnread(calls[i].rows[k].id, calls[i].user)

\* C10 (as the spec states it): markMessagesAsRead called by a user with
\* the Messaging flag set, and met by no transport failure, succeeds; and
\* after markMessagesAsRead(c) by U has succeeded and no message to U in c
\* was created since, getConversations reports unreadCount 0 for c to U.
C10_ReadAfterMark ==
  \A i \in CallIds :
     /\ ( /\ calls[i].op = "markMessagesAsRead" /\ calls[i].pc = "done"
          /\ calls[i].flag0 /\ calls[i].user # NoUser /\ ~calls[i].sawOther )
        => calls[i].status = "ok"
     /\ ( calls[i].op = "getConversations" /\ calls[i].pc = "done" /\ calls[i].status = "ok" )
        => \A k \in 1..Len(calls[i].rows) :
              << calls[i].rows[k].id, calls[i].user >> \in marked
                 => calls[i].rows[k].unreadCount = 0

\* ---------------------------------------------------------------- C11
C11_Occurrences(s, x) == Cardinality({ k \in 1..Len(s) : s[k] = x })
C11_List(c) == IF c.type = "favorite" THEN mockFavorites[c.user] ELSE mockWishlist[c.user]
C11_Stores == << mockFavorites, mockWishlist, rSaved >>

\* C11: SavedItem idempotence.  The step in which an addSavedItem(b, t) of
\* user u completes, in the store that serves it: when (u, b, t) was saved
\* already no membership changes, and in every case b is in u's list for t
\* exactly once afterwards.  The step in which a removeSavedItem(b, t) that
\* reached its store completes, when (u, b, t) was not saved: the call
\* returns without error and no membership changes.
C11_SavedItemIdempotence ==
  [][ \A i \in CallIds :
        LET c == calls[i]
            d == calls'[i]
        IN  ( c.outer = "none" /\ InFlight(c) /\ d.pc = "done" /\ d.op = c.op )
            => /\ c.pc = "as_mock"
                  => /\ C11_Occurrences(C11_List(c), c.bookId) >= 1
                        => C11_Stores' = C11_Stores
                     /\ C11_Occurrences(C11_List(c)', c.bookId) = 1
                     /\ rSaved' = rSaved
               /\ ( c.pc = "as_upsert" /\ d.last \in {"ok", "23505"} )
                  => /\ Row(c) \in rSaved => C11_Stores' = C11_Stores
                     /\ Row(c) \in rSaved'
                     /\ << mockFavorites, mockWishlist >>' = << mockFavorites, mockWishlist >>
               /\ ( c.pc = "rs_mock" /\ C11_Occurrences(C11_List(c), c.bookId) = 0 )
                  => d.status = "ok" /\ C11_Stores' = C11_Stores
               /\ ( c.pc = "rs_delete" /\ d.last = "ok" /\ Row(c) \notin rSaved )
                  => d.status = "ok" /\ C11_Stores' = C11_Stores ]_vars

\* The second addSavedItem in a row has been answered by the remote store.
C11_Witness ==
  \E i \in CallIds :
     /\ calls[i].op = "addSavedItem" /\ calls[i].pc = "done"
     /\ calls[i].last = "23505" /\ Row(calls[i]) \in rSaved

\* ---------------------------------------------------------------- C12
\* Whether (user, book, type) of call c is saved in the store the flag selects.
C12_Saved(c, flag, fav, wish, remote) ==
  IF flag THEN Includes(IF c.type = "favorite" THEN fav[c.user] ELSE wish[c.user], c.bookId)
  ELSE Row(c) \in remote

\* C12: with one caller awaiting each call, a toggleSavedItem(b, t) of a
\* signed-in user that met no transport failure returns without error the
\* negation of the membership of (user, b, t) it found, and that is the
\* membership it leaves, in the store that serves the module when it returns
\* (the fixture store when the call itself discovered the missing relation);
\* an isSavedItem(b, t) that met no transport failure returns that
\* membership.  So from 'not saved' a first toggle returns true and
\* isSavedItem is then true, a second returns false and it is then false.
C12_ToggleFlips ==
  [][ \A i \in CallIds :
        LET c == calls[i]
            d == calls'[i]
            ends == c.pc # "done" /\ d.pc = "done" /\ d.user # NoUser /\ ~d.sawOther
        IN  /\ ( ends /\ d.op = "toggleSavedItem" )
               => /\ d.status = "ok"
                  /\ d.bool = ~C12_Saved(d, flagSaved', mockFavorites, mockWishlist, rSaved)
                  /\ d.bool = C12_Saved(d, flagSaved', mockFavorites', mockWishlist', rSaved')
            /\ ( ends /\ d.op = "isSavedItem" )
               => /\ d.status = "ok"
                  /\ d.bool = C12_Saved(d, flagSaved', mockFavorites', mockWishlist', rSaved') ]_vars

\* A second toggle has returned false from the fixture store, which an
\* earlier call fell back to.
C12_Witness ==
  \E i \in CallIds :
     /\ calls[i].op = "toggleSavedItem" /\ calls[i].pc = "done" /\ calls[i].status = "ok"
     /\ ~calls[i].bool /\ calls[i].fixture /\ ~calls[i].saw42 /\ flagSaved
     /\ ~C12_Saved(calls[i], flagSaved, mockFavorites, mockWishlist, rSaved)

\* ---------------------------------------------------------------- C13
\* Two overlapping toggleSavedItem calls of one user for one key that have
\* both returned, having both read 'not saved' and met no transport failure.
C13_Raced(i, j) ==
  /\ i # j
  /\ \A k \in {i, j} : /\ calls[k].op = "toggleSavedItem" /\ calls[k].pc = "done"
                       /\ calls[k].user # NoUser /\ ~calls[k].isSaved /\ ~calls[k].sawOther
  /\ Row(calls[i]) = Row(calls[j])

\* C13: toggleSavedItem is not atomic.  A toggle that read 'not saved' takes
\* the add branch whatever happened since it read: when it returns (no
\* transport failure met) the key is saved in the store that served the
\* add, and the call returned true, or was rejected by the remote store's
\* unique constraint because another call had inserted the row meanwhile.
\* Two overlapping toggles of one key therefore both read 'not saved', both
\* add and both return true, leaving the key saved.
C13_ToggleNotAtomic ==
  [][ \A i \in CallIds :
        LET c == calls[i]
            d == calls'[i]
        IN  ( /\ c.pc \in {"as_mock", "as_upsert"} /\ d.pc = "done"
              /\ d.op = "toggleSavedItem" /\ ~d.isSaved /\ ~d.sawOther )
            => /\ \/ d.status = "ok" /\ d.bool
                  \/ d.status = "err" /\ d.error = "23505" /\ c.pc = "as_upsert"
               /\ C12_Saved(d, c.pc = "as_mock", mockFavorites', mockWishlist', rSaved') ]_vars

\* Both overlapping toggles returned true and the key is saved.
C13_Witness ==
  \E i, j \in CallIds :
     /\ C13_Raced(i, j)
     /\ calls[i].status = "ok" /\ calls[i].bool
     /\ calls[j].status = "ok" /\ calls[j].bool
     /\ C12_Saved(calls[i], flagSaved, mockFavorites, mockWishlist, rSaved)

\* ---------------------------------------------------------------- C14
\* C14 (as the spec states it): called with no authenticated session,
\* isSavedItem returns false and getSavedItems returns [] without failing,
\* while addSavedItem and removeSavedItem fail; none of them changes the
\* SavedItems flag or a saved-item membership.
C14_AnonymousCallers ==
  [][ \A i \in CallIds :
        LET c == calls[i]
            d == calls'[i]
        IN  ( /\ session = NoUser /\ c.pc # "done" /\ d.pc = "done" /\ d.outer = "none"
              /\ d.op \in {"isSavedItem", "getSavedItems", "addSavedItem", "removeSavedItem"} )
            => /\ d.op = "isSavedItem" => d.status = "ok" /\ ~d.bool
               /\ d.op = "getSavedItems" => d.status = "ok" /\ d.rows = << >>
               /\ d.op \in {"addSavedItem", "removeSavedItem"} => d.status = "err"
               /\ flagSaved' = flagSaved
               /\ << mockFavorites, mockWishlist, rSaved >>'
                     = << mockFavorites, mockWishlist, rSaved >> ]_vars

\* ---------------------------------------------------------------- C15
\* C15 (as the spec states it): getUnreadCount() called with no
\* authenticated session returns 0 without failing; called by user U and
\* met by no transport failure it returns the number of messages with
\* receiver_id = U and read = false in the store that served it.
C15_UnreadTotal ==
  \A i \in CallIds :
     ( calls[i].op = "getUnreadCount" /\ calls[i].pc = "done" /\ ~calls[i].sawOther )
     => /\ calls[i].status = "ok"
        /\ calls[i].count =
             IF calls[i].user = NoUser THEN 0
             ELSE IF calls[i].fixture THEN MockUnreadTotal(calls[i].user)
             ELSE Cardinality({ m \in Range(rMessages) :
                                  m.receiver_id = calls[i].user /\ ~m.read })

\* ---------------------------------------------------------------- C16
C16_In(msgs, convId) == { m \in Range(msgs) : m.conversation_id = convId }
\* What startConversation of call c is to add: conversation conv, and one
\* message in it from the caller to the seller.
C16_Created(c, conv, convs, convs2, msgs, msgs2) ==
  /\ convs2 = Append(convs, conv)
  /\ conv.listing_id = c.listingId /\ conv.buyer_id = c.user /\ conv.seller_id = c.sellerId
  /\ conv.is_active /\ conv.created_at = conv.last_message_at
  /\ Len(msgs2) = Len(msgs) + 1
  /\ \E m \in Range(msgs2) :
        /\ C16_In(msgs2, conv.id) = {m}
        /\ m.sender_id = c.user /\ m.receiver_id = c.sellerId /\ ~m.read

\* C16 (as the spec states it): a startConversation(listingId, sellerId, msg)
\* of caller U that returns, when the store serving it held no conversation
\* for (listingId, U, sellerId), has added exactly one conversation, with
\* buyer U, seller sellerId, is_active and created_at = last_message_at, and
\* exactly one message in it, from U to sellerId, unread.  With the fixture
\* store as seeded, startConversation('book-005', 'user-005', 'Hi') by
\* user-001 returns a conversation that is new and holds exactly one message.
C16_StartCreates ==
  [][ \A i \in CallIds :
        LET c == calls[i]
            d == calls'[i]
        IN  /\ ( /\ c.pc = "sc_mock" /\ d.pc = "done" /\ d.status = "ok"
                 /\ ~\E conv \in Range(mockConversations) :
                        SameTriple(conv, c.listingId, c.user, c.sellerId) )
               => C16_Created(c, d.rows[1], mockConversations, mockConversations',
                              mockMessages, mockMessages')
            /\ ( /\ c.pc = "sc_mock" /\ d.pc = "done"
                 /\ c.user = "user-001" /\ c.listingId = "book-005" /\ c.sellerId = "user-005"
                 /\ mockConversations = SeedConversations /\ mockMessages = SeedMessages )
               => /\ d.status = "ok"
                  /\ d.rows[1] \notin Range(mockConversations)
                  /\ Cardinality(C16_In(mockMessages', d.rows[1].id)) = 1
            /\ ( c.pc = "sc_create" /\ d.pc = "sc_message" )
               => \E conv \in Range(rConversations') :
                     /\ rConversations' = Append(rConversations, conv)
                     /\ conv.buyer_id = c.user /\ conv.seller_id = c.sellerId
                     /\ conv.is_active /\ conv.created_at = conv.last_message_at
            /\ ( c.pc = "sc_get" /\ c.ts2 # 0 /\ d.pc = "done" /\ d.status = "ok" )
               => \E m \in Range(rMessages) :
                     /\ C16_In(rMessages, c.conversationId) = {m}
                     /\ m.sender_id = c.user /\ m.receiver_id = c.sellerId /\ ~m.read ]_vars

\* ---------------------------------------------------------------- C17
C17_Stores == << mockConversations, mockMessages, rConversations, rMessages >>

\* C17: no self-conversations.  In every state every conversation, remote
\* or fixture, has buyer_id # seller_id; and a startConversation whose
\* sellerId is the caller's own id fails in the step that starts it, having
\* sent no request and read or written no conversation or message store.
C17_NoSelfConversation ==
  [][ /\ \A conv \in Range(rConversations) \cup Range(mockConversations)
                    \cup Range(rConversations') \cup Range(mockConversations') :
            conv.buyer_id # conv.seller_id
      /\ \A i \in CallIds :
            LET c == calls[i]
                d == calls'[i]
            IN  ( /\ ~InFlight(c) /\ d # c /\ d.op = "startConversation"
                  /\ session # NoUser /\ d.sellerId = session )
                => /\ d.pc = "done" /\ d.status = "err"
                   /\ d.error = "Cannot start a conversation with yourself"
                   /\ ~d.remote /\ d.last = None
                   /\ C17_Stores' = C17_Stores ]_vars

\* A caller has asked for a conversation with themselves and been refused.
C17_Witness ==
  \E i \in CallIds :
     /\ calls[i].op = "startConversation" /\ calls[i].pc = "done"
     /\ calls[i].sellerId = session
     /\ calls[i].error = "Cannot start a conversation with yourself"

C19_Sent(c, m, convs) ==
  /\ m.conversation_id = c.conversationId /\ m.sender_id = c.user
  /\ m.content = c.content /\ ~m.read
  /\ \E conv \in Range(convs) :
        /\ conv.id = c.conversationId
        /\ m.receiver_id \in { conv.buyer_id, conv.seller_id } \ { c.user }
\* last_message_at of conversation convId becomes t and no other changes.
C19_Touched(convs, convs2, convId, t) ==
  /\ Len(convs2) = Len(convs)
  /\ \A k \in 1..Len(convs) :
        convs2[k].last_message_at =
           IF convs[k].id = convId THEN t ELSE convs[k].last_message_at

\* C19 (as the spec states it): a sendMessage(c, x) of caller U that
\* succeeds adds exactly one message, in c, from U to the other participant,
\* with content x and read = false, and when it returns c.last_message_at
\* is that message's created_at and no other conversation's last_message_at
\* has changed; on the remote path and on the fixture path.
C19_SendMessage ==
  [][ \A i \in CallIds :
        LET c == calls[i]
            d == calls'[i]
        IN  /\ ( c.pc = "sm_insert" /\ d.pc = "sm_update" )
               => /\ rMessages' = Append(rMessages, d.rows[1])
                  /\ C19_Sent(c, d.rows[1], rConversations)
            /\ ( c.pc = "sm_update" /\ d.pc = "done" /\ d.status = "ok" )
               => /\ rMessages' = rMessages
                  /\ C19_Touched(rConversations, rConversations', c.conversationId,
                                 d.rows[1].created_at)
            /\ ( c.pc = "sm_mock" /\ d.pc = "done" /\ d.status = "ok" )
               => /\ mockMessages' = Append(mockMessages, d.rows[1])
                  /\ C19_Sent(c, d.rows[1], mockConversations)
                  /\ C19_Touched(mockConversations, mockConversations', c.conversationId,
                                 d.rows[1].created_at) ]_vars

\* ---------------------------------------------------------------- C20
C20_Ids(convs) == { conv.id : conv \in Range(convs) }
C20_Stores == << rMessages, mockMessages, rConversations, mockConversations >>

\* C20: a sendMessage(c, x) answered by a store that holds no conversation
\* c fails in that step; and the step in which a sendMessage fails
\* changes no message and no conversation, the call having inserted no
\* message before.
C20_SendToMissing ==
  [][ \A i \in CallIds :
        LET c == calls[i]
            d == calls'[i]
        IN  /\ ( c.pc = "sm_conversation" /\ d # c /\ c.conversationId \notin C20_Ids(rConversations) )
               => d.pc = "done" /\ d.status = "err"
            /\ ( c.pc = "sm_mock" /\ d # c /\ c.conversationId \notin C20_Ids(mockConversations) )
               => d.pc = "done" /\ d.status = "err" /\ d.error = "Conversation not found"
            /\ ( c.pc # "done" /\ d.pc = "done" /\ d.op = "sendMessage" /\ d.status = "err" )
               => C20_Stores' = C20_Stores /\ d.rows = << >> ]_vars

\* The remote store has answered a sendMessage that it holds no such conversation.
C20_Witness ==
  \E i \in CallIds :
     /\ calls[i].op = "sendMessage" /\ calls[i].pc = "done" /\ calls[i].status = "err"
     /\ calls[i].error = "PGRST116"
     /\ calls[i].conversationId \notin C20_Ids(rConversations)

\* ---------------------------------------------------------------- C21
\* C21 (as the spec states it): a sendMessage or startConversation given
\* empty message content fails in the step that starts it, before any
\* request to the remote store and any access to the fixture store; no
\* message of either store has empty content.
C21_ValidationFirst ==
  [][ /\ \A m \in Range(rMessages) \cup Range(mockMessages)
                 \cup Range(rMessages') \cup Range(mockMessages') : m.content # ""
      /\ \A i \in CallIds :
            LET c == calls[i]
                d == calls'[i]
            IN  ( /\ ~InFlight(c) /\ d # c
                  /\ d.op \in {"sendMessage", "startConversation"} /\ d.content = "" )
                => d.pc = "done" /\ d.status = "err" /\ ~d.remote ]_vars

\* C22 (as the spec states it): a signIn finishes with a User only in a
\* step that follows the auth service's acceptance of the email and
\* password, and the pair is one of the auth service's accounts; this in
\* every state of the UserService flag.
C22_SignInVerified ==
  [][ \A i \in CallIds :
         LET c == calls[i]
             d == calls'[i]
         IN  ( /\ d # c /\ d.op = "signIn" /\ d.pc = "done" /\ d.status = "ok" )
             => /\ c.pc = "si_profile"
                /\ << toLowerCase(d.email), d.password >> \in accounts ]_vars

\* ---------------------------------------------------------------- C23
\* The message that the caller of d sent last with sendMessage, when it is
\* the message stored last in its conversation in the store that served d:
\* the seeded rows apart, every message of SpecSendRead was stored by a
\* sendMessage that succeeded.
C23_Stored(convId, fixture) ==
  SelectSeq(IF fixture THEN mockMessages ELSE rMessages,
            LAMBDA m : m.conversation_id = convId)
C23_Seeded == Range(SeedMessages) \cup Range(RemoteMessages0)
C23_SentLast(convId, d) ==
  LET st == C23_Stored(convId, d.fixture) IN
  IF st # << >> /\ st[Len(st)] \notin C23_Seeded /\ st[Len(st)].sender_id = d.user
  THEN { st[Len(st)] } ELSE {}

\* C23 (as the spec states it): callers one at a time.  When a sendMessage
\* (c, x) of user U has succeeded and no message was stored in c since, a
\* getMessages(c) of U that returns, returns a list whose last element is
\* the message sent, and a getConversations of U that returns reports
\* lastMessage = x for c.
C23_CausalOrder ==
  [][ \A i \in CallIds, convId \in ConvArgs :
         LET c == calls[i]
             d == calls'[i]
         IN  \A m \in C23_SentLast(convId, d) :
               ( c.pc # "done" /\ d.pc = "done" /\ d.status = "ok" )
               => /\ ( d.op = "getMessages" /\ d.conversationId = convId )
                       => d.rows # << >> /\ d.rows[Len(d.rows)].id = m.id
                  /\ d.op = "getConversations"
                       => \E k \in 1..Len(d.rows) :
                             d.rows[k].id = convId /\ d.rows[k].lastMessage = m.content ]_vars

\* ---------------------------------------------------------------- C24
\* The enrichment both paths of getConversations owe an entry, over the
\* users and listings known: the row found, or the placeholder.
C24_OtherUser(row, userId, users) ==
  LET otherUserId == OtherUserId(row, userId)
      us == { u \in users : u.id = otherUserId }
  IN  IF us = {} THEN { [ id |-> otherUserId, name |-> "Unknown User" ] }
      ELSE { [ id |-> u.id, name |-> u.name ] : u \in us }
C24_Listing(row, listings) ==
  LET ls == { l \in listings : l.id = row.listing_id }
  IN  IF ls = {} THEN { [ id |-> row.listing_id, title |-> "Unknown Book", price |-> 0 ] }
      ELSE ls
\* What getUserById(userId) returns from the store that served call d.
C24_UserById(d, userId, profiles) ==
  IF d.fixture THEN Range(getMockSellerById(userId))
  ELSE { p \in profiles : p.id = userId }

\* C24 (as the spec states it): on the fixture path as on the remote path,
\* every entry getConversations returns carries as otherUser the counterpart
\* found, or the counterpart's id with the name 'Unknown User', and as
\* listing the listing found, or the title 'Unknown Book' with price 0; and
\* after the step in which an updateProfile(u, name) succeeds, getUserById(u)
\* on the same path returns the updated name.
C24_PathsAgree ==
  [][ \A i \in CallIds :
         LET c == calls[i]
             d == calls'[i]
         IN  ( c.pc # "done" /\ d.pc = "done" /\ d.status = "ok" )
             => /\ d.op = "getConversations"
                   => \A k \in 1..Len(d.rows) :
                         /\ d.rows[k].otherUser \in
                              C24_OtherUser(d.rows[k], d.user,
                                            IF d.fixture THEN Range(mockUsers) ELSE c.users)
                         /\ d.rows[k].listing \in
                              C24_Listing(d.rows[k], IF d.fixture \/ d.last = "ok"
                                                     THEN RemoteListings ELSE {})
                /\ d.op = "updateProfile"
                   => \A u \in C24_UserById(d, d.userId, rProfiles') : u.name = d.name ]_vars

\* ---------------------------------------------------------------- C25
\* The conversations and the messages of the store that served call d.
C25_Conversations(d) == IF d.fixture THEN Range(mockConversations') ELSE Range(rConversations')
C25_Messages(d) == IF d.fixture THEN Range(mockMessages') ELSE Range(rMessages')
\* The stored row of which an entry of getConversations is the enrichment.
C25_Row(e) ==
  [ id |-> e.id, listing_id |-> e.listing_id, buyer_id |-> e.buyer_id,
    seller_id |-> e.seller_id, created_at |-> e.created_at,
    last_message_at |-> e.last_message_at, is_active |-> e.is_active ]
C25_Sorted(rows, key, descending) ==
  \A k \in 1..(Len(rows) - 1) :
     IF descending THEN rows[k][key] >= rows[k + 1][key]
     ELSE rows[k][key] <= rows[k + 1][key]
C25_NoRepeat(rows) == \A a, b \in 1..Len(rows) : rows[a].id = rows[b].id => a = b

\* C25 (as the spec states it): the step in which a getConversations of
\* user U returns: its entries are, once each, exactly the active
\* conversations of the store in which U is buyer or seller, by
\* last_message_at descending.  The step in which a getMessages(c) returns:
\* its rows are, once each, exactly the messages of c in the store, by
\* created_at ascending.
C25_ExactlyTheRows ==
  [][ \A i \in CallIds :
         LET c == calls[i]
             d == calls'[i]
         IN  ( c.pc # "done" /\ d.pc = "done" /\ d.status = "ok" )
             => /\ d.op = "getConversations"
                   => /\ { C25_Row(e) : e \in Range(d.rows) } =
                           { r \in C25_Conversations(d) :
                               /\ r.buyer_id = d.user \/ r.seller_id = d.user
                               /\ r.is_active }
                      /\ C25_NoRepeat(d.rows)
                      /\ C25_Sorted(d.rows, "last_message_at", TRUE)
                /\ d.op = "getMessages"
                   => /\ Range(d.rows) =
                           { m \in C25_Messages(d) : m.conversation_id = d.conversationId }
                      /\ C25_NoRepeat(d.rows)
                      /\ C25_Sorted(d.rows, "created_at", FALSE) ]_vars

\* C25 (amended): the step in which a getConversations of user U returns:
\* its entries are, once each, exactly the active conversations of the store
\* in which U is buyer or seller, by last_message_at descending.  The step
\* in which a getMessages(c) returns: its rows are, once each, by created_at
\* ascending, exactly the messages of c in the store when the fixture store
\* served the call or the caller takes part in c, and none otherwise
\* (messages_select_policy).
C25_RowsTheCallerMayRead ==
  [][ \A i \in CallIds :
         LET c == calls[i]
             d == calls'[i]
         IN  ( c.pc # "done" /\ d.pc = "done" /\ d.status = "ok" )
             => /\ d.op = "getConversations"
                   => /\ { C25_Row(e) : e \in Range(d.rows) } =
                           { r \in C25_Conversations(d) :
                               /\ r.buyer_id = d.user \/ r.seller_id = d.user
                               /\ r.is_active }
                      /\ C25_NoRepeat(d.rows)
                      /\ C25_Sorted(d.rows, "last_message_at", TRUE)
                /\ d.op = "getMessages"
                   => /\ Range(d.rows) =
                           { m \in C25_Messages(d) :
                               /\ m.conversation_id = d.conversationId
                               /\ d.fixture \/ Participates(d.conversationId, d.user) }
                      /\ C25_NoRepeat(d.rows)
                      /\ C25_Sorted(d.rows, "created_at", FALSE) ]_vars

C25_Witness ==
  \E i \in CallIds :
     /\ calls[i].op = "getMessages" /\ calls[i].pc = "done" /\ calls[i].status = "ok"
     /\ ~calls[i].fixture /\ Len(calls[i].rows) >= 2
     /\ Participates(calls[i].conversationId, calls[i].user)

\* ---------------------------------------------------------------- C26
\* C26 (as the spec states it): the step in which a getConversations
\* returns, none of its lookups having met a transport failure: every entry
\* carries as lastMessage the content of the message of that conversation
\* that was stored last in the store that served the call (the message
\* created most recently, whatever the timestamps), or undefined when that
\* store holds no message of the conversation.
C26_LastMessage ==
  [][ \A i \in CallIds :
         LET c == calls[i]
             d == calls'[i]
         IN  ( /\ c.pc # "done" /\ d.pc = "done" /\ d.status = "ok"
               /\ d.op = "getConversations" /\ ~d.sawOther )
             => \A k \in 1..Len(d.rows) :
                   LET st == C23_Stored(d.rows[k].id, d.fixture)
                   IN  d.rows[k].lastMessage =
                         IF st = << >> THEN Undefined ELSE st[Len(st)].content ]_vars

\* ---------------------------------------------------------------- C27
\* A step from message list old to new, taken while the calls were cs: no
\* stored message goes away or moves, and one that differs afterwards
\* differs in read alone, now TRUE, while a markMessagesAsRead of its
\* receiver on its conversation was at the position pc.
C27_Frame(old, new, cs, pc) ==
  /\ Len(new) >= Len(old)
  /\ \A k \in 1..Len(old) :
        \/ new[k] = old[k]
        \/ /\ new[k] = [ old[k] EXCEPT !.read = TRUE ]
           /\ \E i \in CallIds :
                 /\ cs[i].op = "markMessagesAsRead" /\ cs[i].pc = pc
                 /\ cs[i].conversationId = old[k].conversation_id
                 /\ cs[i].user = old[k].receiver_id

\* C27: in every step of MessageService, in either store, a message's read
\* flag changes only from false to true and only in the step that completes
\* a markMessagesAsRead(c) of its receiver on its conversation c; that step
\* changes no other field and no other message, and no step of any other
\* operation changes a stored message.
C27_ReadFrame ==
  [][ /\ C27_Frame(rMessages, rMessages', calls, "mr_update")
      /\ C27_Frame(mockMessages, mockMessages', calls, "mr_mock") ]_vars
C27_Witness ==
  /\ \E i \in CallIds :
        /\ calls[i].op = "markMessagesAsRead" /\ calls[i].pc = "done"
        /\ calls[i].status = "ok"
        /\ \E k \in 1..Len(rMessages) :
              /\ rMessages[k].read /\ rMessages[k].receiver_id = calls[i].user
              /\ rMessages[k].conversation_id = calls[i].conversationId
  /\ \E k \in 1..Len(rMessages) : ~rMessages[k].read

\* ---------------------------------------------------------------- C28
C28_NoRepeat(lists) ==
  \A u \in UserIds, b \in BookArgs : C11_Occurrences(lists[u], b) <= 1
\* Where the fixture list of type t differs after a step, u's list
\* differs, and a call of u on type t was at the timer of its add or
\* remove; ids other than the call's are kept, in their order.
C28_Frame(old, new, t) ==
  \A u \in UserIds :
     new[u] # old[u]
     => \E i \in CallIds :
           /\ calls[i].pc \in {"as_mock", "rs_mock"}
           /\ calls[i].user = u /\ calls[i].type = t
           /\ SelectSeq(new[u], LAMBDA id : id # calls[i].bookId)
                = SelectSeq(old[u], LAMBDA id : id # calls[i].bookId)

\* C28: with addSavedItem, removeSavedItem, toggleSavedItem (and the reads)
\* overlapping in any way, no fixture list ever holds a book id twice, and a
\* step changes at most the list of the user and type of the call whose
\* timer ran, and in it only the membership of that call's book.
C28_FixtureLists ==
  [][ /\ C28_NoRepeat(mockFavorites) /\ C28_NoRepeat(mockWishlist)
      /\ C28_NoRepeat(mockFavorites') /\ C28_NoRepeat(mockWishlist')
      /\ C28_Frame(mockFavorites, mockFavorites', "favorite")
      /\ C28_Frame(mockWishlist, mockWishlist', "wishlist")
      /\ mockFavorites' = mockFavorites \/ mockWishlist' = mockWishlist ]_vars
\* Two overlapping calls of one user have both added one book to one fixture
\* list, which holds it once.
C28_Witness ==
  \E i, j \in CallIds :
     /\ i # j
     /\ calls[i].pc = "done" /\ calls[j].pc = "done"
     /\ calls[i].status = "ok" /\ calls[j].status = "ok"
     /\ calls[i].fixture /\ calls[j].fixture
     /\ calls[i].op \in {"addSavedItem", "toggleSavedItem"}
     /\ calls[j].op \in {"addSavedItem", "toggleSavedItem"}
     /\ calls[i].bookId = calls[j].bookId /\ calls[i].type = calls[j].type
     /\ calls[i].user = calls[j].user
     /\ C11_Occurrences(C11_List(calls[i]), calls[i].bookId) = 1

\* ---------------------------------------------------------------- C29
\* C29 (as the spec states it): every getSavedItems call that was started
\* eventually returns to its caller, with a list or with an error, whatever
\* the state of the SavedItems flag and whatever its requests are answered.
C29_GetSavedItemsSettles ==
  \A i \in CallIds :
     ( calls[i].op = "getSavedItems" /\ InFlight(calls[i]) ) ~> ( calls[i].pc = "done" )

\* ---------------------------------------------------------------- C30
\* The timer positions of the fixture paths of the eight operations that
\* call themselves again, and the flag each of them tests.
C30_ReinvokedPcs ==
  {"as_mock", "rs_mock", "is_mock", "gs_mock", "gc_mock", "gm_mock", "uc_mock", "up_mock"}
C30_Flag(pc, users, saved, msg) ==
  IF pc = "up_mock" THEN users
  ELSE IF pc \in {"as_mock", "rs_mock", "is_mock", "gs_mock"} THEN saved ELSE msg
\* Positions at which a call awaits no table of its module: a timer, the
\* listings BookService fetches for the fixture path, the end.
C30_OffRemote == TimerPcs \cup {"gs_listings", "hung", "done"}

\* C30: a step that takes a call from awaiting a table of its module to a
\* fixture timer (the call has invoked itself again) is a step of one of
\* the eight operations and leaves the module's flag set; and from a
\* fixture path a call never goes back to awaiting a table of its module.
\* So a top-level call invokes itself again at most once, whatever the
\* remote store keeps answering.
C30_ReinvocationTerminates ==
  [][ \A i \in CallIds :
         LET c == calls[i]
             d == calls'[i]
         IN  /\ ( AwaitsRemote(c) /\ c.pc # "gs_listings" /\ d.pc \in TimerPcs )
                => /\ d.pc \in C30_ReinvokedPcs
                   /\ C30_Flag(d.pc, flagUsers', flagSaved', flagMsg')
             /\ ( c.pc \in TimerPcs \cup {"gs_listings", "hung"} )
                => d.pc \in C30_OffRemote ]_vars
C30_Witness ==
  \E i \in CallIds :
     /\ calls[i].pc \in C30_ReinvokedPcs
     /\ calls[i].saw42 /\ ~calls[i].flag0 /\ calls[i].remote

====
